---- MODULE Spec2Model ----
(***************************************************************************)
(* A model of the front tracker (mermoz/rft.py), its differencing kernels  *)
(* and the trajectory set-up of MermozProblem (mermoz/problem.py).         *)
(*                                                                         *)
(* Numbers.  The code computes in floating point.  The model computes in   *)
(* fixed point: every real quantity (a coordinate, a value of phi, a wind  *)
(* component, a time step, a derivative) is an integer count of 1/Scale,   *)
(* products and quotients round toward zero (as floating point does, the   *)
(* rounding is symmetric in the sign), and sqrt is the integer square      *)
(* root.  Grid and step counts (nx, ny, nt, i, j, k) are plain integers.   *)
(***************************************************************************)
EXTENDS Integers, Sequences, FiniteSets, TLC

VARIABLES kin, kout, rft, run, problem

vars == <<kin, kout, rft, run, problem>>

(***************************************************************************)
(* Each specification below drives one part of the program and holds the   *)
(* variables of the other parts at these values.                           *)
(***************************************************************************)
\* rft and run while no tracker exists, problem while no problem exists
NoRft == [method |-> "none"]
NoRun == [pc |-> "none"]
NoProblem == [descr |-> "none"]

NoKernelIn == [field |-> <<>>, windfield |-> <<>>, delta |-> 0]
\* kout holds the result of each kernel once it has been applied (<<>> before)
NoKernelOut == [central_diff |-> <<>>, upwind_diff |-> <<>>, wind_dot_phi |-> <<>>,
                axis |-> 0]

(***************************************************************************)
(* Bounds of the model.                                                    *)
(***************************************************************************)
\* the grids SpecKernel draws have 3..MaxN nodes per axis
MaxN == 4
\* coefficients of the input fields range over -MaxCoef..MaxCoef
MaxCoef == 1

(***************************************************************************)
(* Fixed-point arithmetic.                                                 *)
(***************************************************************************)
\* resolution of the fixed-point numbers: 1/1000
Scale == 10 * 100

Abs(a) == IF a < 0 THEN -a ELSE a

\* a / b rounded toward zero
Quot(a, b) ==
    IF (a >= 0) = (b > 0) THEN Abs(a) \div Abs(b) ELSE -(Abs(a) \div Abs(b))

\* product and quotient of two fixed-point numbers
FMul(a, b) == Quot(a * b, Scale)
FDiv(a, b) == Quot(a * Scale, b)

Max(a, b) == IF a >= b THEN a ELSE b
Min(a, b) == IF a <= b THEN a ELSE b

RECURSIVE ISqrtIter(_, _, _)
ISqrtIter(n, lo, hi) ==
    IF lo >= hi THEN lo
    ELSE LET mid == (lo + hi + 1) \div 2
         IN  IF mid * mid <= n THEN ISqrtIter(n, mid, hi)
             ELSE ISqrtIter(n, lo, mid - 1)

\* floor of the square root of n >= 0
ISqrt(n) == ISqrtIter(n, 0, 46340)

(***************************************************************************)
(* Two-dimensional arrays: f[i][j], 0 <= i < nx, 0 <= j < ny.              *)
(***************************************************************************)
ShapeX(field) == Cardinality(DOMAIN field)
ShapeY(field) == Cardinality(DOMAIN field[0])

\* np.zeros(field.shape)
Zeros(nx, ny) == [i \in 0..(nx - 1) |-> [j \in 0..(ny - 1) |-> 0]]

\* an array held as a value: the identity on f (the comparison makes TLC
\* evaluate f's cells once, where it would evaluate them at each use)
Array(f) == IF f = f THEN f ELSE f

IsInterior(nx, ny, i, j) == i \in 1..(nx - 2) /\ j \in 1..(ny - 2)

(***************************************************************************)
(* The tail of central_diff, upwind_diff and wind_dot_phi: the three       *)
(* functions end with the same statements, which fill the outermost ring   *)
(* of res from the interior, in this order: the edges i = 0 and i = nx-1,  *)
(* then the edges j = 0 and j = ny-1, then the four corners.               *)
(***************************************************************************)
\* for j in range(1, ny - 1): res[0, j] = res[1, j]; res[nx-1, j] = res[nx-2, j]
EdgesAlongY(res) ==
    LET nx == ShapeX(res)
        ny == ShapeY(res)
    IN  Array([i \in 0..(nx - 1) |-> [j \in 0..(ny - 1) |->
            IF j \in 1..(ny - 2) /\ i = 0 THEN res[1][j]
            ELSE IF j \in 1..(ny - 2) /\ i = nx - 1 THEN res[nx - 2][j]
            ELSE res[i][j]]])

\* for i in range(1, nx - 1): res[i, 0] = res[i, 1]; res[i, ny-1] = res[i, ny-2]
EdgesAlongX(res) ==
    LET nx == ShapeX(res)
        ny == ShapeY(res)
    IN  Array([i \in 0..(nx - 1) |-> [j \in 0..(ny - 1) |->
            IF i \in 1..(nx - 2) /\ j = 0 THEN res[i][1]
            ELSE IF i \in 1..(nx - 2) /\ j = ny - 1 THEN res[i][ny - 2]
            ELSE res[i][j]]])

\* the four corners, with the corner (nx-1, 0) taken from the wrong cell
Corners_Slip(res) ==
    LET nx == ShapeX(res)
        ny == ShapeY(res)
    IN  Array([i \in 0..(nx - 1) |-> [j \in 0..(ny - 1) |->
            IF i = 0 /\ j = 0 THEN res[1][1]
            ELSE IF i = nx - 1 /\ j = 0 THEN res[1][1]
            ELSE IF i = 0 /\ j = ny - 1 THEN res[1][ny - 2]
            ELSE IF i = nx - 1 /\ j = ny - 1 THEN res[nx - 2][ny - 2]
            ELSE res[i][j]]])

\* res[0, 0] = res[1, 1]; res[0, ny-1] = res[1, ny-2];
\* res[nx-1, 0] = res[nx-2, 1]; res[nx-1, ny-1] = res[nx-2, ny-2]
Corners(res) ==
    LET nx == ShapeX(res)
        ny == ShapeY(res)
    IN  Array([i \in 0..(nx - 1) |-> [j \in 0..(ny - 1) |->
            IF i = 0 /\ j = 0 THEN res[1][1]
            ELSE IF i = nx - 1 /\ j = 0 THEN res[nx - 2][1]
            ELSE IF i = 0 /\ j = ny - 1 THEN res[1][ny - 2]
            ELSE IF i = nx - 1 /\ j = ny - 1 THEN res[nx - 2][ny - 2]
            ELSE res[i][j]]])

ExtendEdges(res) == Corners(EdgesAlongX(EdgesAlongY(res)))

(***************************************************************************)
(* central_diff(field, axis, delta), axis in {0, 1}.                       *)
(***************************************************************************)
central_stencil(field, axis, delta, i, j) ==
    IF axis = 0
    THEN FDiv(field[i + 1][j] - field[i - 1][j], 2 * delta)
    ELSE FDiv(field[i][j + 1] - field[i][j - 1], 2 * delta)

central_diff(field, axis, delta) ==
    LET nx == ShapeX(field)
        ny == ShapeY(field)
    IN  ExtendEdges(Array([i \in 0..(nx - 1) |-> [j \in 0..(ny - 1) |->
            IF IsInterior(nx, ny, i, j)
            THEN central_stencil(field, axis, delta, i, j)
            ELSE 0]]))

(***************************************************************************)
(* upwind_diff(field, axis, delta), axis in {0, 1}: m, c, p are the values *)
(* before, at and after the cell along the axis.  When no branch of the    *)
(* if/elif chain applies res keeps its initial 0.                          *)
(***************************************************************************)
upwind_stencil(field, axis, delta, i, j) ==
    LET m == IF axis = 0 THEN field[i - 1][j] ELSE field[i][j - 1]
        c == field[i][j]
        p == IF axis = 0 THEN field[i + 1][j] ELSE field[i][j + 1]
    IN  IF m < c /\ c < p THEN FDiv(c - m, delta)
        ELSE IF m > c /\ c > p THEN FDiv(p - c, delta)
        ELSE IF m <= c /\ c >= p THEN FDiv(p - m, 2 * delta)
        ELSE 0

upwind_diff(field, axis, delta) ==
    LET nx == ShapeX(field)
        ny == ShapeY(field)
    IN  ExtendEdges(Array([i \in 0..(nx - 1) |-> [j \in 0..(ny - 1) |->
            IF IsInterior(nx, ny, i, j)
            THEN upwind_stencil(field, axis, delta, i, j)
            ELSE 0]]))

(***************************************************************************)
(* wind_dot_phi(field, windfield, delta): windfield[i][j] = <<u, v>>.      *)
(***************************************************************************)
wind_stencil_Swapped(field, windfield, delta, i, j) ==
    LET d_mx == FDiv(field[i][j] - field[i - 1][j], delta)
        d_px == FDiv(field[i + 1][j] - field[i][j], delta)
        d_my == FDiv(field[i][j] - field[i][j - 1], delta)
        d_py == FDiv(field[i][j + 1] - field[i][j], delta)
        u_ijn == windfield[i][j][1]
        v_ijn == windfield[i][j][2]
    IN  FMul(Max(u_ijn, 0), d_px) + FMul(Min(u_ijn, 0), d_mx)
        + FMul(Max(v_ijn, 0), d_py) + FMul(Min(v_ijn, 0), d_my)

wind_stencil(field, windfield, delta, i, j) ==
    LET d_mx == FDiv(field[i][j] - field[i - 1][j], delta)
        d_px == FDiv(field[i + 1][j] - field[i][j], delta)
        d_my == FDiv(field[i][j] - field[i][j - 1], delta)
        d_py == FDiv(field[i][j + 1] - field[i][j], delta)
        u_ijn == windfield[i][j][1]
        v_ijn == windfield[i][j][2]
    IN  FMul(Max(u_ijn, 0), d_mx) + FMul(Min(u_ijn, 0), d_px)
        + FMul(Max(v_ijn, 0), d_my) + FMul(Min(v_ijn, 0), d_py)

wind_dot_phi(field, windfield, delta) ==
    LET nx == ShapeX(field)
        ny == ShapeY(field)
    IN  ExtendEdges(Array([i \in 0..(nx - 1) |-> [j \in 0..(ny - 1) |->
            IF IsInterior(nx, ny, i, j)
            THEN wind_stencil(field, windfield, delta, i, j)
            ELSE 0]]))

(***************************************************************************)
(* grad and norm_grad with method = 'central' or 'upwind'.                 *)
(***************************************************************************)
\* the derivative along one axis by the chosen method
diff_along(field, axis, delta, gmethod) ==
    IF gmethod = "central" THEN central_diff(field, axis, delta)
    ELSE upwind_diff(field, axis, delta)

\* np.stack((diff0, diff1), axis=2): g[i][j] = <<diff0[i][j], diff1[i][j]>>
stack(diff0, diff1) ==
    Array([i \in DOMAIN diff0 |-> [j \in DOMAIN diff0[0] |->
        <<diff0[i][j], diff1[i][j]>>]])

grad(field, delta_x, delta_y, gmethod) ==
    stack(diff_along(field, 0, delta_x, gmethod), diff_along(field, 1, delta_y, gmethod))

\* np.sqrt(diff0 ** 2 + diff1 ** 2)
hypot(diff0, diff1) ==
    Array([i \in DOMAIN diff0 |-> [j \in DOMAIN diff0[0] |->
        ISqrt(diff0[i][j] * diff0[i][j] + diff1[i][j] * diff1[i][j])]])

norm_grad(field, delta_x, delta_y, gmethod) ==
    hypot(diff_along(field, 0, delta_x, gmethod), diff_along(field, 1, delta_y, gmethod))

(***************************************************************************)
(* Wind models (wind.py): value(x) of a UniformWind and a TwoSectorsWind.  *)
(***************************************************************************)
\* np.heaviside(a, 0.): 0 for a < 0, the second argument (0) at a = 0, 1 above
heaviside0(a) == IF a > 0 THEN 1 ELSE 0

wind_value(w, x) ==
    IF w.kind = "uniform" THEN w.wind_vector
    ELSE << 0, w.v_w1 * heaviside0(w.x_switch - x[1])
               + w.v_w2 * heaviside0(x[1] - w.x_switch) >>

(***************************************************************************)
(* RFT: the reachability front tracker.                                    *)
(*                                                                         *)
(* rft holds the fields of one RFT object.  phi[s][i][j] is the code's     *)
(* phi[i, j, s] and wind[s][i][j] = <<u, v>> is wind[i, j, s, :].  The     *)
(* constructor leaves phi and wind set to None; the 'base' kernel never    *)
(* allocates them, it indexes them, so they are arrays only once the       *)
(* caller has assigned arrays to these two attributes (AssignArrays).      *)
(*                                                                         *)
(* run is the caller's view: pc = "idle" between calls and "loop" inside   *)
(* compute()'s integration loop (k is the loop counter), err the exception *)
(* the last call ended with ("none" when it returned), last the last call  *)
(* that ended, and history: calls (calls begun), writes (the slices        *)
(* written since the last compute() began, in order), fresh (the last      *)
(* compute() began on an instance nothing had been called on), t_before    *)
(* and wrote (t before the last update_phi() call and the slice that call  *)
(* wrote, -1 when none).                                                   *)
(***************************************************************************)
None == <<>>

\* 5e-3, in units of 1/Scale
Eps == 5

\* nx and ny of the tracker's grid, and the most time slices and calls
GridNx == 4
GridNy == 4
MaxNt == 3
MaxCalls == 3

Schemes == {"sethian", "lolla"}

WindModels ==
    { [kind |-> "uniform", wind_vector |-> <<0, 0>>,
       v_w1 |-> 0, v_w2 |-> 0, x_switch |-> 0],
      [kind |-> "uniform", wind_vector |-> <<400, -300>>,
       v_w1 |-> 0, v_w2 |-> 0, x_switch |-> 0],
      [kind |-> "two_sectors", wind_vector |-> <<0, 0>>,
       v_w1 |-> 300, v_w2 |-> -200, x_switch |-> 1500] }

\* RFT.__init__ with kernel = 'base' and nt given
RFT_init(bl, tr, max_time, nx, ny, mp, x_init, nt, method) ==
    [ bl |-> bl, tr |-> tr, max_time |-> max_time,
      nx |-> nx, ny |-> ny, nt |-> nt,
      delta_x |-> Quot(tr[1] - bl[1], nx - 1),
      delta_y |-> Quot(tr[2] - bl[2], ny - 1),
      delta_t |-> Quot(max_time, nt - 1),
      mp |-> mp, speed |-> mp.model.v_a, x_init |-> x_init,
      wind |-> None, phi |-> None,
      method |-> method, t |-> 0, kernel |-> "base" ]

\* bl + np.array([delta_x * i, delta_y * j])
GridPoint(self, i, j) ==
    << self.bl[1] + self.delta_x * i, self.bl[2] + self.delta_y * j >>

\* np.linalg.norm(a - b)
Norm(a, b) ==
    ISqrt((a[1] - b[1]) * (a[1] - b[1]) + (a[2] - b[2]) * (a[2] - b[2]))

\* compute(), lines 240-244: the wind array
compute_wind(self) ==
    [k \in 0..(self.nt - 1) |-> [i \in 0..(self.nx - 1) |-> [j \in 0..(self.ny - 1) |->
        wind_value(self.mp.model.wind, GridPoint(self, i, j))]]]

\* compute(), lines 246-249: slice 0 of phi
compute_phi0(self) ==
    [i \in 0..(self.nx - 1) |-> [j \in 0..(self.ny - 1) |->
        Norm(self.x_init, GridPoint(self, i, j)) - Eps]]

\* phi - delta_t / 2 * speed * n, cell by cell
half_step(self, phi, n) ==
    Array([i \in DOMAIN phi |-> [j \in DOMAIN phi[i] |->
        phi[i][j] - FMul(FMul(Quot(self.delta_t, 2), self.speed), n[i][j])]])

\* phi - delta_t * np.einsum('ijk,ijk->ij', w, g), cell by cell
advect_step(self, phi, w, g) ==
    Array([i \in DOMAIN phi |-> [j \in DOMAIN phi[i] |->
        phi[i][j] - FMul(self.delta_t, FMul(w[i][j][1], g[i][j][1])
                                       + FMul(w[i][j][2], g[i][j][2]))]])

\* update_phi with method 'lolla', step 1
phi_star(self, phi_cur) ==
    half_step(self, phi_cur, norm_grad(phi_cur, self.delta_x, self.delta_y, "central"))

\* step 2 with the gradient of slice t instead of the gradient of phi star
phi_sstar_Unchained(self, star) ==
    advect_step(self, star, self.wind[self.t],
                grad(self.phi[self.t], self.delta_x, self.delta_y, "central"))

\* step 2
phi_sstar(self, star) ==
    advect_step(self, star, self.wind[self.t],
                grad(star, self.delta_x, self.delta_y, "central"))

\* step 3: the value assigned to phi[:, :, t + 1]
lolla_next(self) ==
    phi_star(self, phi_sstar(self, phi_star(self, self.phi[self.t])))

\* phi_cur - delta_t * (speed * n + a), cell by cell
sethian_step(self, phi_cur, n, a) ==
    Array([i \in DOMAIN phi_cur |-> [j \in DOMAIN phi_cur[i] |->
        phi_cur[i][j] - FMul(self.delta_t, FMul(self.speed, n[i][j]) + a[i][j])]])

\* update_phi with method 'sethian': the value assigned to phi[:, :, t + 1]
sethian_next(self) ==
    sethian_step(self, self.phi[self.t],
                 norm_grad(self.phi[self.t], self.delta_x, self.delta_y, "central"),
                 wind_dot_phi(self.phi[self.t], self.wind[self.t], self.delta_x))

Raised(self, e) == [self |-> self, err |-> e, wrote |-> -1]

\* update_phi(): the object after the call, the exception it raised ("none"
\* when it returned) and the slice it wrote (-1 when none).  phi.shape on
\* None raises AttributeError, indexing None TypeError, a slice index past
\* the array IndexError; an exception leaves the object as it was.
update_phi(self) ==
    IF self.method \in Schemes
    THEN IF self.phi = None THEN Raised(self, "AttributeError")
         ELSE IF self.t \notin DOMAIN self.phi THEN Raised(self, "IndexError")
         ELSE IF self.wind = None THEN Raised(self, "TypeError")
         ELSE IF self.t + 1 \notin DOMAIN self.phi THEN Raised(self, "IndexError")
         ELSE [ self |-> [self EXCEPT
                    !.phi[self.t + 1] = IF self.method = "lolla"
                                        THEN lolla_next(self)
                                        ELSE sethian_next(self),
                    !.t = self.t + 1],
                err |-> "none", wrote |-> self.t + 1 ]
    \* print(f'Unknown update method for phi : {self.method}'), then t += 1
    ELSE [ self |-> [self EXCEPT !.t = self.t + 1], err |-> "none", wrote |-> -1 ]

InitRFT ==
    /\ \E tr \in {<<3000, 3000>>, <<3000, 6000>>}, nt \in 2..MaxNt,
          x_init \in {<<1000, 2000>>, <<2200, 700>>},
          method \in Schemes \cup {"euler"}, w \in WindModels :
          rft = RFT_init(<<0, 0>>, tr, 1000, GridNx, GridNy,
                         [model |-> [v_a |-> 1000, wind |-> w]], x_init, nt, method)
    /\ run = [pc |-> "idle", k |-> 0, err |-> "none", last |-> "none",
              calls |-> 0, writes |-> <<>>, fresh |-> FALSE,
              t_before |-> 0, wrote |-> -1]

\* arrays a caller may assign: all zeros, or a sloping phi with a wind that
\* changes from slice to slice
CallerArrays(self) ==
    { [phi |-> [s \in 0..(self.nt - 1) |-> Zeros(self.nx, self.ny)],
       wind |-> [s \in 0..(self.nt - 1) |->
                   [i \in 0..(self.nx - 1) |-> [j \in 0..(self.ny - 1) |-> <<0, 0>>]]]],
      [phi |-> [s \in 0..(self.nt - 1) |->
                   [i \in 0..(self.nx - 1) |-> [j \in 0..(self.ny - 1) |->
                       700 * i + 300 * j * j + 40 * s]]],
       wind |-> [s \in 0..(self.nt - 1) |->
                   [i \in 0..(self.nx - 1) |-> [j \in 0..(self.ny - 1) |->
                       <<200 * (s + 1), -100 * (s + 1)>>]]]] }

\* the caller assigns arrays of shape (nx, ny, nt) and (nx, ny, nt, 2) to the
\* attributes phi and wind
AssignArrays ==
    /\ run.pc = "idle"
    /\ rft.phi = None /\ rft.wind = None
    /\ \E a \in CallerArrays(rft) :
          rft' = [rft EXCEPT !.phi = a.phi, !.wind = a.wind]
    /\ run' = [run EXCEPT !.last = "assign", !.err = "none"]
    /\ UNCHANGED <<kin, kout, problem>>

\* compute() up to the integration loop: the wind array and slice 0
ComputeBegin ==
    /\ run.pc = "idle"
    /\ run.calls < MaxCalls
    /\ rft.kernel = "base"
    /\ LET began == [run EXCEPT !.calls = run.calls + 1, !.k = 0, !.writes = <<>>,
                                !.fresh = (run.last = "none")]
       IN  IF rft.wind = None \/ rft.phi = None
           THEN \* self.wind[i, j, k, :] = ... on None raises TypeError
                /\ rft' = IF rft.wind = None THEN rft
                          ELSE [rft EXCEPT !.wind = compute_wind(rft)]
                /\ run' = [began EXCEPT !.err = "TypeError", !.last = "compute"]
           ELSE /\ rft' = [rft EXCEPT !.wind = compute_wind(rft),
                                      !.phi[0] = compute_phi0(rft)]
                /\ run' = [began EXCEPT !.pc = "loop", !.err = "none",
                                        !.writes = <<0>>]
    /\ UNCHANGED <<kin, kout, problem>>

\* one iteration of "for k in range(self.nt - 1): self.update_phi()"
ComputeStep ==
    /\ run.pc = "loop"
    /\ run.k < rft.nt - 1
    /\ \E r \in {update_phi(rft)} :
           /\ rft' = r.self
           /\ run' = IF r.err # "none"
                     THEN [run EXCEPT !.pc = "idle", !.err = r.err, !.last = "compute",
                                      !.t_before = rft.t, !.wrote = r.wrote]
                     ELSE [run EXCEPT !.k = run.k + 1,
                                      !.t_before = rft.t, !.wrote = r.wrote,
                                      !.writes = IF r.wrote >= 0
                                                 THEN Append(run.writes, r.wrote)
                                                 ELSE run.writes]
    /\ UNCHANGED <<kin, kout, problem>>

\* the loop is over: compute() returns
ComputeReturn ==
    /\ run.pc = "loop"
    /\ run.k = rft.nt - 1
    /\ run' = [run EXCEPT !.pc = "idle", !.err = "none", !.last = "compute"]
    /\ UNCHANGED <<rft, kin, kout, problem>>

\* the caller calls update_phi() itself
UpdatePhi ==
    /\ run.pc = "idle"
    /\ run.calls < MaxCalls
    /\ \E r \in {update_phi(rft)} :
           /\ rft' = r.self
           /\ run' = [run EXCEPT !.calls = run.calls + 1, !.err = r.err,
                                 !.last = "update_phi",
                                 !.t_before = rft.t, !.wrote = r.wrote]
    /\ UNCHANGED <<kin, kout, problem>>

(***************************************************************************)
(* The tracker's life: construction, then any calls of compute() and       *)
(* update_phi().                                                           *)
(***************************************************************************)
Init == InitRFT /\ kin = NoKernelIn /\ kout = NoKernelOut /\ problem = NoProblem

Next == AssignArrays \/ ComputeBegin \/ ComputeStep \/ ComputeReturn \/ UpdatePhi

Spec == Init /\ [][Next]_vars

(***************************************************************************)
(* One-sided differences and the upwind choice, as the claims state them.  *)
(***************************************************************************)
BackwardDiff(field, axis, delta, i, j) ==
    IF axis = 0 THEN FDiv(field[i][j] - field[i - 1][j], delta)
    ELSE FDiv(field[i][j] - field[i][j - 1], delta)

ForwardDiff(field, axis, delta, i, j) ==
    IF axis = 0 THEN FDiv(field[i + 1][j] - field[i][j], delta)
    ELSE FDiv(field[i][j + 1] - field[i][j], delta)

\* one axis of the advection term: flow component w times the one-sided
\* difference against the flow
UpwindTerm(w, back, fwd) ==
    IF w > 0 THEN FMul(w, back) ELSE IF w < 0 THEN FMul(w, fwd) ELSE 0

InteriorOf(field) ==
    {c \in (DOMAIN field) \X (DOMAIN field[0]) :
        IsInterior(ShapeX(field), ShapeY(field), c[1], c[2])}

(***************************************************************************)
(* Claims about the tracker.                                               *)
(***************************************************************************)
\* the last thing that happened is an update_phi() call that returned
Returned ==
    \/ run.pc = "loop" /\ run.k >= 1
    \/ run.pc = "idle" /\ run.last = "update_phi" /\ run.err = "none"

\* the last compute() began on a fresh instance and is in its loop or over
FreshCompute == run.fresh /\ (run.pc = "loop" \/ run.last = "compute")

\* self with every slice of phi and wind but slice s blanked
OnlySlice(self, s) ==
    [self EXCEPT
        !.phi = [k \in DOMAIN self.phi |->
                    IF k = s THEN self.phi[k] ELSE Zeros(self.nx, self.ny)],
        !.wind = [k \in DOMAIN self.wind |->
                    IF k = s THEN self.wind[k]
                    ELSE [i \in 0..(self.nx - 1) |-> [j \in 0..(self.ny - 1) |-> <<0, 0>>]]]]

\* C1: every update_phi() call writes exactly one slice, t + 1, computed from
\* slice t of phi and of the wind alone, and advances t by one; slice 0 is
\* written by compute()'s initialisation only, so that the slices written
\* during a compute() run have strictly increasing indices.
C1_UpdateWritesNextSlice ==
    /\ Returned =>
          /\ run.wrote = run.t_before + 1
          /\ rft.t = run.t_before + 1
          /\ rft.phi[rft.t] =
                update_phi(OnlySlice([rft EXCEPT !.t = run.t_before],
                                     run.t_before)).self.phi[rft.t]
    /\ \A m, n \in DOMAIN run.writes :
          /\ m < n => run.writes[m] < run.writes[n]
          /\ run.writes[m] = 0 <=> m = 1

\* C2: compute() on a fresh instance (t = 0, nt >= 2) makes nt - 1
\* update_phi() transitions and returns with t = nt - 1 and every slice
\* 0..nt-1 written.
C2_FreshComputeCompletes ==
    (run.fresh /\ run.pc = "idle" /\ run.last = "compute") =>
        /\ run.err = "none"
        /\ rft.t = rft.nt - 1
        /\ run.writes = [s \in 1..rft.nt |-> s - 1]

\* C3: once compute() on a fresh instance has passed its initialisation,
\* phi[i, j, 0] is the distance from the node bl + (i * delta_x, j * delta_y)
\* to x_init, less the small positive constant (the distance is the integer
\* square root: d * d <= |node - x_init|^2 < (d + 1) * (d + 1)).
C3_Slice0IsDistanceLessEps ==
    FreshCompute =>
        /\ rft.phi # None
        /\ \A i \in 0..(rft.nx - 1), j \in 0..(rft.ny - 1) :
              LET dx == rft.bl[1] + i * rft.delta_x - rft.x_init[1]
                  dy == rft.bl[2] + j * rft.delta_y - rft.x_init[2]
                  d == rft.phi[0][i][j] + Eps
              IN  /\ Eps > 0
                  /\ d >= 0
                  /\ d * d <= dx * dx + dy * dy
                  /\ dx * dx + dy * dy < (d + 1) * (d + 1)

\* C4: with a scheme name other than 'sethian' and 'lolla' no call returns:
\* t is never advanced and neither compute() nor update_phi() completes.
C4_UnknownSchemeIsFatal ==
    rft.method \notin Schemes =>
        /\ rft.t = 0
        /\ ~(run.pc = "idle" /\ run.last \in {"compute", "update_phi"}
             /\ run.err = "none")

\* C5: whatever calls are made, t stays within 0..nt-1 and no slice of index
\* nt or more is written.
C5_TimeIndexWithinVolume ==
    /\ rft.t \in 0..(rft.nt - 1)
    /\ run.wrote < rft.nt
    /\ \A n \in DOMAIN run.writes : run.writes[n] < rft.nt

\* C6: with method 'sethian' an update_phi() call sets, at every interior
\* cell, phi[t+1] = phi[t] - delta_t * (speed * N + A): N the norm of the
\* centred differences of phi[t] (over 2 * delta_x and over 2 * delta_y), A
\* the upwind advection term with the x one-sided differences over delta_x
\* and the y one-sided differences over delta_y.
C6_SethianUpdate ==
    (Returned /\ rft.method = "sethian") =>
        LET prev == rft.phi[rft.t - 1]
            w == rft.wind[rft.t - 1]
        IN  \A c \in InteriorOf(prev) :
                LET i == c[1]
                    j == c[2]
                    cx == FDiv(prev[i + 1][j] - prev[i - 1][j], 2 * rft.delta_x)
                    cy == FDiv(prev[i][j + 1] - prev[i][j - 1], 2 * rft.delta_y)
                    N == ISqrt(cx * cx + cy * cy)
                    A == UpwindTerm(w[i][j][1],
                                    BackwardDiff(prev, 0, rft.delta_x, i, j),
                                    ForwardDiff(prev, 0, rft.delta_x, i, j))
                       + UpwindTerm(w[i][j][2],
                                    BackwardDiff(prev, 1, rft.delta_y, i, j),
                                    ForwardDiff(prev, 1, rft.delta_y, i, j))
                IN  rft.phi[rft.t][i][j] =
                        prev[i][j] - FMul(rft.delta_t, FMul(rft.speed, N) + A)

(***************************************************************************)
(* The kernels as functions: SpecKernel draws a field, a wind field and a  *)
(* step from bounded sets and applies one kernel to them.                  *)
(***************************************************************************)
Coefs == (-MaxCoef)..MaxCoef

\* a quadratic surface plus a fixed ripple, in units of 1/Scale
InputField(nx, ny, a, b, c) ==
    [i \in 0..(nx - 1) |-> [j \in 0..(ny - 1) |->
        100 * (a * i * i + b * j * j + c * i * j) + 37 * ((3 * i + 5 * j) % 4)]]

\* a wind field whose components take the three signs over the grid
InputWind(nx, ny, p, q) ==
    [i \in 0..(nx - 1) |-> [j \in 0..(ny - 1) |->
        << 500 * (((i + p) % 3) - 1), 300 * (((j + 2 * i + q) % 3) - 1) >>]]

InitKernel ==
    /\ rft = NoRft
    /\ run = NoRun
    /\ problem = NoProblem
    /\ \E nx \in 3..MaxN, ny \in 3..MaxN, a \in Coefs, b \in Coefs, c \in Coefs,
          p \in 0..2, q \in 0..2, delta \in {500, 2000}, axis \in {0, 1} :
          /\ kin = [field |-> InputField(nx, ny, a, b, c),
                    windfield |-> InputWind(nx, ny, p, q),
                    delta |-> delta]
          /\ kout = [NoKernelOut EXCEPT !.axis = axis]

Apply_central_diff ==
    /\ kin # NoKernelIn
    /\ kout.central_diff = <<>>
    /\ kout' = [kout EXCEPT !.central_diff = central_diff(kin.field, kout.axis, kin.delta)]
    /\ UNCHANGED <<kin, rft, run, problem>>

Apply_upwind_diff ==
    /\ kin # NoKernelIn
    /\ kout.upwind_diff = <<>>
    /\ kout' = [kout EXCEPT !.upwind_diff = upwind_diff(kin.field, kout.axis, kin.delta)]
    /\ UNCHANGED <<kin, rft, run, problem>>

Apply_wind_dot_phi ==
    /\ kin # NoKernelIn
    /\ kout.wind_dot_phi = <<>>
    /\ kout' = [kout EXCEPT
                  !.wind_dot_phi = wind_dot_phi(kin.field, kin.windfield, kin.delta)]
    /\ UNCHANGED <<kin, rft, run, problem>>

NextKernel == Apply_central_diff \/ Apply_upwind_diff \/ Apply_wind_dot_phi

SpecKernel == InitKernel /\ [][NextKernel]_vars

(***************************************************************************)
(* Claims about the kernels.                                               *)
(***************************************************************************)
\* C7: at every interior cell wind_dot_phi is, per axis, the flow component
\* times the backward difference when the component is positive, times the
\* forward difference when it is negative, and nothing when it is zero.
C7_UpwindByFlowSign ==
    kout.wind_dot_phi # <<>> =>
        \A c \in InteriorOf(kin.field) :
            LET i == c[1]
                j == c[2]
                w == kin.windfield[i][j]
            IN  kout.wind_dot_phi[i][j] =
                    UpwindTerm(w[1], BackwardDiff(kin.field, 0, kin.delta, i, j),
                                     ForwardDiff(kin.field, 0, kin.delta, i, j))
                  + UpwindTerm(w[2], BackwardDiff(kin.field, 1, kin.delta, i, j),
                                     ForwardDiff(kin.field, 1, kin.delta, i, j))

\* wind_dot_phi has run on a field where the flow is positive at one interior
\* cell, negative at another and has a zero component at a third, and at each
\* of them the backward and forward differences differ
C7_Witness ==
    /\ kout.wind_dot_phi # <<>>
    /\ \E c \in InteriorOf(kin.field) :
          /\ kin.windfield[c[1]][c[2]][1] > 0
          /\ BackwardDiff(kin.field, 0, kin.delta, c[1], c[2])
                # ForwardDiff(kin.field, 0, kin.delta, c[1], c[2])
    /\ \E c \in InteriorOf(kin.field) :
          /\ kin.windfield[c[1]][c[2]][2] < 0
          /\ BackwardDiff(kin.field, 1, kin.delta, c[1], c[2])
                # ForwardDiff(kin.field, 1, kin.delta, c[1], c[2])
    /\ \E c \in InteriorOf(kin.field) :
          /\ kin.windfield[c[1]][c[2]][1] = 0
          /\ BackwardDiff(kin.field, 0, kin.delta, c[1], c[2]) # 0
          /\ ForwardDiff(kin.field, 0, kin.delta, c[1], c[2]) # 0
          /\ kout.wind_dot_phi[c[1]][c[2]] =
                UpwindTerm(kin.windfield[c[1]][c[2]][2],
                           BackwardDiff(kin.field, 1, kin.delta, c[1], c[2]),
                           ForwardDiff(kin.field, 1, kin.delta, c[1], c[2]))

\* the outermost ring of res repeats the interior: an edge cell holds the
\* value of the interior cell next to it across the edge, a corner cell the
\* value of the interior cell diagonal to it
RingCopiesInterior(res) ==
    LET nx == ShapeX(res)
        ny == ShapeY(res)
    IN  /\ \A j \in 1..(ny - 2) :
              res[0][j] = res[1][j] /\ res[nx - 1][j] = res[nx - 2][j]
        /\ \A i \in 1..(nx - 2) :
              res[i][0] = res[i][1] /\ res[i][ny - 1] = res[i][ny - 2]
        /\ res[0][0] = res[1][1]
        /\ res[nx - 1][0] = res[nx - 2][1]
        /\ res[0][ny - 1] = res[1][ny - 2]
        /\ res[nx - 1][ny - 1] = res[nx - 2][ny - 2]

\* C8: for central_diff, upwind_diff and wind_dot_phi on a field with nx >= 3
\* and ny >= 3, every non-corner edge cell of the result equals the adjacent
\* interior cell and every corner cell the diagonally adjacent interior cell.
C8_RingCopiesInterior ==
    /\ kout.central_diff # <<>> => RingCopiesInterior(kout.central_diff)
    /\ kout.upwind_diff # <<>> => RingCopiesInterior(kout.upwind_diff)
    /\ kout.wind_dot_phi # <<>> => RingCopiesInterior(kout.wind_dot_phi)

\* the interior cells of res hold four different values
InteriorDistinct(res) ==
    /\ ShapeX(res) >= 4 /\ ShapeY(res) >= 4
    /\ Cardinality({res[1][1], res[2][1], res[1][2], res[2][2]}) = 4

\* the three kernels have run on a grid with several interior cells, and in
\* each result the interior cells differ, so that a copy from the wrong cell
\* would show
C8_Witness ==
    /\ kout.central_diff # <<>> /\ InteriorDistinct(kout.central_diff)
    /\ kout.upwind_diff # <<>> /\ InteriorDistinct(kout.upwind_diff)
    /\ kout.wind_dot_phi # <<>> /\ InteriorDistinct(kout.wind_dot_phi)

(***************************************************************************)
(* One kernel call cell by cell.  SpecCells runs the assignments of one    *)
(* call of central_diff, upwind_diff or wind_dot_phi in any order: the     *)
(* assignment of an interior cell computes the stencil from the input, the *)
(* assignment of a cell of the outermost ring copies a cell of res.  kout  *)
(* holds res (np.zeros at first), done (the cells assigned so far) and     *)
(* history: early (some copy ran before the cell it copies was assigned),  *)
(* shuffled (some assignment ran before one the loops place before it).    *)
(***************************************************************************)
\* the grid of the cell-by-cell runs
CellNx == 4
CellNy == 3

Kernels == {"central_diff", "upwind_diff", "wind_dot_phi"}

Cells(nx, ny) == (0..(nx - 1)) \X (0..(ny - 1))

IsCorner(nx, ny, c) == c[1] \in {0, nx - 1} /\ c[2] \in {0, ny - 1}

IsEdge(nx, ny, c) == ~IsInterior(nx, ny, c[1], c[2]) /\ ~IsCorner(nx, ny, c)

\* the cell a ring cell is copied from, with the corner (nx-1, 0) taken from
\* the wrong cell
CellSource_Slip(nx, ny, c) ==
    IF c = <<nx - 1, 0>> THEN <<1, 1>>
    ELSE << IF c[1] = 0 THEN 1 ELSE IF c[1] = nx - 1 THEN nx - 2 ELSE c[1],
            IF c[2] = 0 THEN 1 ELSE IF c[2] = ny - 1 THEN ny - 2 ELSE c[2] >>

\* the cell a ring cell is copied from: res[0, j] = res[1, j], ...,
\* res[nx - 1, ny - 1] = res[nx - 2, ny - 2]
CellSource(nx, ny, c) ==
    << IF c[1] = 0 THEN 1 ELSE IF c[1] = nx - 1 THEN nx - 2 ELSE c[1],
       IF c[2] = 0 THEN 1 ELSE IF c[2] = ny - 1 THEN ny - 2 ELSE c[2] >>

\* the place of a cell's assignment in the loops: the interior cells, the
\* edges i = 0 and i = nx-1, the edges j = 0 and j = ny-1, the corners
SeqRank(nx, ny, c) ==
    IF IsInterior(nx, ny, c[1], c[2]) THEN c[1] * ny + c[2]
    ELSE IF IsCorner(nx, ny, c)
         THEN 3 * nx * ny + (IF c[1] = 0 THEN 0 ELSE 1) + (IF c[2] = 0 THEN 0 ELSE 2)
    ELSE IF c[1] \in {0, nx - 1}
         THEN nx * ny + 2 * c[2] + (IF c[1] = 0 THEN 0 ELSE 1)
    ELSE 2 * nx * ny + 2 * c[1] + (IF c[2] = 0 THEN 0 ELSE 1)

\* the value the interior loop assigns to res[i, j]
cell_stencil(kernel, axis, in, i, j) ==
    IF kernel = "central_diff" THEN central_stencil(in.field, axis, in.delta, i, j)
    ELSE IF kernel = "upwind_diff" THEN upwind_stencil(in.field, axis, in.delta, i, j)
    ELSE wind_stencil(in.field, in.windfield, in.delta, i, j)

\* the array the call returns when its loops run as written
sequential(kernel, axis, in) ==
    IF kernel = "central_diff" THEN central_diff(in.field, axis, in.delta)
    ELSE IF kernel = "upwind_diff" THEN upwind_diff(in.field, axis, in.delta)
    ELSE wind_dot_phi(in.field, in.windfield, in.delta)

InitCells ==
    /\ rft = NoRft
    /\ run = NoRun
    /\ problem = NoProblem
    /\ \E b \in {-1, 1} :
          kin = [field |-> InputField(CellNx, CellNy, 1, b, 1),
                 windfield |-> InputWind(CellNx, CellNy, 0, 1),
                 delta |-> 500]
    /\ \E kernel \in Kernels :
          kout = [kernel |-> kernel, axis |-> 0, res |-> Zeros(CellNx, CellNy),
                  done |-> {}, early |-> FALSE, shuffled |-> FALSE]

\* cell c is assigned the value v
Assigned(c, v) ==
    [kout EXCEPT
        !.res[c[1]][c[2]] = v,
        !.done = kout.done \cup {c},
        !.shuffled = kout.shuffled
                     \/ \E d \in Cells(CellNx, CellNy) \ kout.done :
                           SeqRank(CellNx, CellNy, d) < SeqRank(CellNx, CellNy, c)]

\* res[i, j] = <stencil on field> for an interior cell
UpdateInterior ==
    /\ \E c \in Cells(CellNx, CellNy) \ kout.done :
          /\ IsInterior(CellNx, CellNy, c[1], c[2])
          /\ kout' = Assigned(c, cell_stencil(kout.kernel, kout.axis, kin, c[1], c[2]))
    /\ UNCHANGED <<kin, rft, run, problem>>

\* res[0, j] = res[1, j] and the like for an edge cell
CopyEdge ==
    /\ \E c \in Cells(CellNx, CellNy) \ kout.done :
          /\ IsEdge(CellNx, CellNy, c)
          /\ LET src == CellSource(CellNx, CellNy, c)
             IN  kout' = [Assigned(c, kout.res[src[1]][src[2]]) EXCEPT
                             !.early = kout.early \/ src \notin kout.done]
    /\ UNCHANGED <<kin, rft, run, problem>>

\* res[0, 0] = res[1, 1] and the like for a corner cell
CopyCorner ==
    /\ \E c \in Cells(CellNx, CellNy) \ kout.done :
          /\ IsCorner(CellNx, CellNy, c)
          /\ LET src == CellSource(CellNx, CellNy, c)
             IN  kout' = [Assigned(c, kout.res[src[1]][src[2]]) EXCEPT
                             !.early = kout.early \/ src \notin kout.done]
    /\ UNCHANGED <<kin, rft, run, problem>>

NextCells == UpdateInterior \/ CopyEdge \/ CopyCorner

SpecCells == InitCells /\ [][NextCells]_vars

\* res agrees with the sequential result on the cells of S
AgreesOn(S) ==
    \A c \in S : kout.res[c[1]][c[2]] = sequential(kout.kernel, kout.axis, kin)[c[1]][c[2]]

MaxIter == 3
MaxTrajs == 2

\* MermozProblem.__init__ with domain = None and autodomain = False
MermozProblem_init(bl, tr) ==
    [ descr |-> "Problem", bl |-> bl, tr |-> tr,
      domain |-> IF bl # None /\ tr # None THEN "box" ELSE "everywhere",
      trajs |-> <<>> ]

\* self.domain(x):
\* lambda x: bl[0] < x[0] < tr[0] and bl[1] < x[1] < tr[1], or lambda _: True
domain(self, x) ==
    IF self.domain = "box"
    THEN self.bl[1] < x[1] /\ x[1] < self.tr[1] /\ self.bl[2] < x[2] /\ x[2] < self.tr[2]
    ELSE TRUE

\* TimedSC.value(t, x): the time budget is used up
TimedSC_value(stop_cond, t, x) == t >= stop_cond.time

\* sc.value with "and" in the place of "or"
sc_value_And(stop_cond, self, t, x) ==
    TimedSC_value(stop_cond, t, x) /\ ~domain(self, x)

\* sc.value = lambda t, x: stop_cond.value(t, x) or not self.domain(x)
sc_value(stop_cond, self, t, x) ==
    TimedSC_value(stop_cond, t, x) \/ ~domain(self, x)

Headings == {<<1000, 0>>, <<-1000, 0>>, <<0, 1000>>, <<0, -1000>>}

InitTraj ==
    /\ rft = NoRft
    /\ kin = NoKernelIn
    /\ kout = NoKernelOut
    /\ \E box \in {<<None, None>>, <<<<0, 0>>, <<2000, 2000>>>>,
                   <<<<0, 0>>, <<1500, 3000>>>>} :
          problem = MermozProblem_init(box[1], box[2])
    /\ \E time \in {1000, 5000}, x_init \in {<<1000, 1000>>, <<500, 1500>>} :
          run = [pc |-> "idle", stop_cond |-> [time |-> time], x_init |-> x_init,
                 sc |-> None, given |-> None, t |-> 0, x |-> x_init, k |-> 0,
                 fired |-> FALSE, int_step |-> 500]

\* integrate_trajectory up to integrator.integrate(x_init): sc is a new
\* TimedSC whose value is the lambda over stop_cond and self
IntegrateBegin ==
    /\ run.pc = "idle"
    /\ Len(problem.trajs) < MaxTrajs
    /\ run' = [run EXCEPT !.pc = "integrating",
                          !.sc = [time |-> 1000, value |-> "lambda"],
                          !.given = [stop_cond |-> run.stop_cond,
                                     problem |-> [problem EXCEPT !.trajs = <<>>]],
                          !.t = 0, !.x = run.x_init, !.k = 0, !.fired = FALSE]
    /\ UNCHANGED <<kin, kout, rft, problem>>

\* one step of the integrator: the state moves by int_step times the
\* velocity, then the stopping condition it was handed is evaluated
IntegrateStep ==
    /\ run.pc = "integrating"
    /\ ~run.fired
    /\ run.k < MaxIter
    /\ \E h \in Headings :
          LET x == << run.x[1] + FMul(run.int_step, h[1]),
                      run.x[2] + FMul(run.int_step, h[2]) >>
              t == run.t + run.int_step
          IN  run' = [run EXCEPT !.x = x, !.t = t, !.k = run.k + 1,
                                 !.fired = sc_value(run.stop_cond, problem, t, x)]
    /\ UNCHANGED <<kin, kout, rft, problem>>

\* the integrator returns; self.trajs.append(traj); return traj
IntegrateEnd ==
    /\ run.pc = "integrating"
    /\ run.fired \/ run.k = MaxIter
    /\ problem' = [problem EXCEPT
                      !.trajs = Append(problem.trajs,
                                       [last_index |-> IF run.fired THEN run.k - 1
                                                       ELSE run.k,
                                        interrupted |-> run.fired])]
    /\ run' = [run EXCEPT !.pc = "idle"]
    /\ UNCHANGED <<kin, kout, rft>>

NextTraj == IntegrateBegin \/ IntegrateStep \/ IntegrateEnd

SpecTraj == InitTraj /\ [][NextTraj]_vars

\* the point x lies on or beyond a side of the box bl..tr
OutsideBox(bl, tr, x) ==
    x[1] <= bl[1] \/ x[1] >= tr[1] \/ x[2] <= bl[2] \/ x[2] >= tr[2]

\* C10: the condition integrate_trajectory hands to the integrator is true at
\* (t, x) exactly when the caller's stop_cond is true there or x is outside
\* the problem's domain, and building it changes neither the caller's
\* stop_cond nor the domain.
C10_StopIsCondOrOutsideDomain ==
    run.given # None =>
        /\ run.stop_cond = run.given.stop_cond
        /\ [problem EXCEPT !.trajs = <<>>] = run.given.problem
        /\ run.sc # run.stop_cond
        /\ run.k >= 1 =>
              (run.fired <=>
                  \/ run.t >= run.given.stop_cond.time
                  \/ /\ run.given.problem.domain = "box"
                     /\ OutsideBox(run.given.problem.bl, run.given.problem.tr, run.x))

\* the integrator stopped on a point on the side of the box while the
\* caller's time budget was not used up
C10_Witness ==
    /\ run.given # None
    /\ run.k >= 1
    /\ run.fired
    /\ run.t < run.stop_cond.time
    /\ run.x[1] = problem.tr[1]
    /\ Len(problem.trajs) >= 1

(***************************************************************************)
(* MermozProblem.in_obs (mermoz/problem.py).  phi_obs is a dict of         *)
(* obstacle functions (t, x) -> float; the model holds its values in       *)
(* insertion order as a sequence, and each obstacle function is affine:    *)
(* phi(t, x) = ax * x[0] + ay * x[1] + ct * t + c.  SpecObs builds a       *)
(* problem with or without phi_obs and queries in_obs at a point; kin is   *)
(* the query (t, x), kout the value returned.                              *)
(***************************************************************************)
\* the most obstacles of a problem
MaxObs == 3

\* phi(t, x) of one obstacle function
phi_value(phi, t, x) == phi.ax * x[1] + phi.ay * x[2] + phi.ct * t + phi.c

\* the end of MermozProblem.__init__: in_obs is the function _in_obs when
\* phi_obs is given and the constant lambda t, x: -1 when it is None
with_phi_obs(self, given, phi_obs) ==
    IF given
    THEN self @@ [ phi_obs |-> phi_obs, in_obs |-> "_in_obs" ]
    ELSE self @@ [ phi_obs |-> None, in_obs |-> "lambda" ]

\* _in_obs returning the position of the last obstacle with phi < 0
RECURSIVE in_obs_loop_Last(_, _, _, _)
in_obs_loop_Last(phi_obs, k, t, x) ==
    IF k < 1 THEN -1
    ELSE IF phi_value(phi_obs[k], t, x) < 0 THEN k - 1
    ELSE in_obs_loop_Last(phi_obs, k - 1, t, x)

in_obs_Last(self, t, x) ==
    IF self.in_obs = "_in_obs"
    THEN in_obs_loop_Last(self.phi_obs, Len(self.phi_obs), t, x)
    ELSE -1

\* for k, phi in enumerate(self.phi_obs.values()): if phi(t, x) < 0.: return k
\* (the model's sequences start at 1, enumerate at 0), then return -1
RECURSIVE in_obs_loop(_, _, _, _)
in_obs_loop(phi_obs, k, t, x) ==
    IF k > Len(phi_obs) THEN -1
    ELSE IF phi_value(phi_obs[k], t, x) < 0 THEN k - 1
    ELSE in_obs_loop(phi_obs, k + 1, t, x)

\* self.in_obs(t, x)
in_obs(self, t, x) ==
    IF self.in_obs = "_in_obs" THEN in_obs_loop(self.phi_obs, 1, t, x) ELSE -1

\* obstacle functions: two half planes, one of them moving with t, and a
\* function that is zero on a line
ObsFunctions ==
    { [ax |-> 1, ay |-> 0, ct |-> 0, c |-> -1],
      [ax |-> 0, ay |-> -1, ct |-> 1, c |-> 1],
      [ax |-> 1, ay |-> 1, ct |-> 0, c |-> -2] }

\* the sequences over S of length 0..n
SeqsUpTo(S, n) == UNION { [1..m -> S] : m \in 0..n }

\* kout before the query is answered
NoQueryOut == [answered |-> FALSE, in_obs |-> 0]

InitObs ==
    /\ rft = NoRft
    /\ run = NoRun
    /\ \E given \in BOOLEAN, phi_obs \in SeqsUpTo(ObsFunctions, MaxObs) :
          /\ given \/ phi_obs = <<>>
          /\ problem = with_phi_obs(MermozProblem_init(None, None), given, phi_obs)
    /\ \E t \in {0, 1}, x \in {<<0, 0>>, <<1, 1>>, <<2, 0>>, <<1, 3>>} :
          kin = [t |-> t, x |-> x]
    /\ kout = NoQueryOut

Query_in_obs ==
    /\ ~kout.answered
    /\ kout' = [answered |-> TRUE, in_obs |-> in_obs(problem, kin.t, kin.x)]
    /\ UNCHANGED <<kin, rft, run, problem>>

NextObs == Query_in_obs

SpecObs == InitObs /\ [][NextObs]_vars

\* the positions (from 0) of the obstacles that are negative at the query
NegativeAt(phi_obs, t, x) ==
    {k \in 0..(Len(phi_obs) - 1) : phi_value(phi_obs[k + 1], t, x) < 0}

\* C11: in_obs(t, x) is -1 exactly when every obstacle function is >= 0 at
\* (t, x), and otherwise the position, in insertion order, of the first
\* obstacle function that is negative there; a problem built without
\* obstacles answers -1 everywhere.
C11_InObsFirstNegative ==
    kout.answered =>
        /\ problem.in_obs = "lambda" => kout.in_obs = -1
        /\ problem.in_obs = "_in_obs" =>
              LET neg == NegativeAt(problem.phi_obs, kin.t, kin.x)
              IN  /\ kout.in_obs = -1 <=> neg = {}
                  /\ neg # {} => /\ kout.in_obs \in neg
                                 /\ \A k \in neg : kout.in_obs <= k

\* in_obs has answered 1: the obstacle before is zero at the query, not
\* negative, and a later obstacle is negative there too
C11_Witness ==
    /\ kout.answered /\ kout.in_obs = 1
    /\ phi_value(problem.phi_obs[1], kin.t, kin.x) = 0
    /\ 2 \in NegativeAt(problem.phi_obs, kin.t, kin.x)

(***************************************************************************)
(* Trajectory and AugmentedTraj (mermoz/trajectory.py).  An array is a     *)
(* sequence (index k of the code is index k + 1 of the sequence).  The     *)
(* constructor copies the arrays it is given and stores the other          *)
(* arguments as they are.  SpecTrajectory constructs an object from        *)
(* arguments drawn from bounded sets and asks it its final time; kin holds *)
(* the arguments, kout the object and the answer.                          *)
(***************************************************************************)
\* the longest array given to a constructor
MaxSamples == 3

\* Trajectory.__init__ (adjoints = None) and AugmentedTraj.__init__
Trajectory_init(timestamps, points, adjoints, controls, last_index, interrupted, type) ==
    [ timestamps |-> timestamps, points |-> points, controls |-> controls,
      adjoints |-> adjoints,
      last_index |-> last_index, interrupted |-> interrupted, optimal |-> FALSE,
      type |-> type, label |-> 0, coords |-> "gcs" ]

\* a[k] of numpy for an array of n elements: an index -n..-1 counts from the
\* end, an index outside -n..n-1 raises IndexError
Item(a, k) ==
    IF k \in 0..(Len(a) - 1) THEN a[k + 1]
    ELSE IF k \in (-Len(a))..(-1) THEN a[Len(a) + k + 1]
    ELSE "IndexError"

\* get_final_time(): self.timestamps[self.last_index]
get_final_time(self) == Item(self.timestamps, self.last_index)

\* sample arrays of n elements
SampleTimes(n) == [k \in 1..n |-> 100 * (k - 1)]
SamplePoints(n) == [k \in 1..n |-> <<10 * k, 20 * k>>]
SampleControls(n) == [k \in 1..n |-> k]

NoObject == [built |-> FALSE]

InitTrajectory ==
    /\ rft = NoRft
    /\ run = NoRun
    /\ problem = NoProblem
    /\ \E nt \in 1..MaxSamples, np \in 1..MaxSamples, nc \in 1..MaxSamples,
          na \in {0, 1, MaxSamples}, last_index \in (-1)..MaxSamples :
          kin = [timestamps |-> SampleTimes(nt), points |-> SamplePoints(np),
                 controls |-> SampleControls(nc),
                 adjoints |-> IF na = 0 THEN None ELSE SamplePoints(na),
                 last_index |-> last_index]
    /\ kout = NoObject

\* Trajectory(...) or, with adjoints, AugmentedTraj(...)
Construct ==
    /\ ~kout.built
    /\ kout' = [built |-> TRUE, asked |-> FALSE, final_time |-> 0,
                traj |-> Trajectory_init(kin.timestamps, kin.points, kin.adjoints,
                                         kin.controls, kin.last_index, FALSE, "TRAJ_INT")]
    /\ UNCHANGED <<kin, rft, run, problem>>

\* traj.get_final_time()
GetFinalTime ==
    /\ kout.built
    /\ ~kout.asked
    /\ kout' = [kout EXCEPT !.asked = TRUE, !.final_time = get_final_time(kout.traj)]
    /\ UNCHANGED <<kin, rft, run, problem>>

NextTrajectory == Construct \/ GetFinalTime

SpecTrajectory == InitTrajectory /\ [][NextTrajectory]_vars

\* C13: every Trajectory or AugmentedTraj object has timestamps, points,
\* controls (and adjoints) of one length n and 0 <= last_index <= n-1, and
\* get_final_time() answers the timestamp of an existing sample.
C13_SampledLengthsAgree ==
    kout.built =>
        LET n == Len(kout.traj.timestamps)
        IN  /\ Len(kout.traj.points) = n
            /\ Len(kout.traj.controls) = n
            /\ kout.traj.adjoints # None => Len(kout.traj.adjoints) = n
            /\ kout.traj.last_index \in 0..(n - 1)
            /\ kout.asked => kout.final_time = kout.traj.timestamps[kout.traj.last_index + 1]

(***************************************************************************)
(* SolverRP.solve (mermoz/solver_rp.py).  Objects are held by reference:   *)
(* kout.objs maps the identity of each Trajectory object to its fields,    *)
(* problem is the dual problem, whose list trajs holds identities, and run *)
(* is the frame of solve(): traj is the identity integrate_trajectory      *)
(* returned, and, as history, returned maps each identity to the fields    *)
(* the object had when integrate_trajectory returned it.  The front        *)
(* tracker solve() calls first (the 'matlab' kernel) and the integrator    *)
(* are not part of the sources: the integrator's result is drawn from the  *)
(* pre-sized records a backward integration from time tu produces.         *)
(***************************************************************************)
\* the size of the integrator's buffer, and the most Trajectory objects
BufferSize == 4
MaxObjects == 2

\* a backward integration that stopped at sample last_index: timestamps fall
\* from tu, the buffer past last_index holds zeros
IntegratorResult(last_index, bend) ==
    Trajectory_init(
        [k \in 1..BufferSize |-> IF k - 1 <= last_index THEN 900 - 100 * (k - 1) ELSE 0],
        [k \in 1..BufferSize |-> IF k - 1 <= last_index THEN <<10 * k, bend * k * k>>
                                 ELSE <<0, 0>>],
        None,
        [k \in 1..BufferSize |-> IF k - 1 <= last_index THEN 7 * k + bend ELSE 0],
        last_index, last_index < BufferSize - 1, "TRAJ_INT")

\* a[:li + 1][::-1] assigned to a[:li + 1]: the first li + 1 elements in
\* reverse order, the others as they were
ReversedUpTo(a, li) ==
    [k \in DOMAIN a |-> IF k <= li + 1 THEN a[li + 2 - k] ELSE a[k]]

\* the attributes solve() reads on the problem: the constructor sets geod_l;
\* _geod_l exists only when the program that built the problem assigned it
InitSolve ==
    /\ rft = NoRft
    /\ kin = NoKernelIn
    /\ \E attrs \in {{"geod_l"}, {"geod_l", "_geod_l"}} :
          problem = MermozProblem_init(None, None) @@ [attrs |-> attrs]
    /\ kout = [objs |-> <<>>]
    /\ run = [pc |-> "idle", traj |-> 0, returned |-> <<>>, err |-> "none"]

\* integrate_trajectory, lines 179-181: the integrator's Trajectory is
\* appended to self.trajs and the same object is returned
integrate_trajectory(pc) ==
    /\ Len(kout.objs) < MaxObjects
    /\ \E last_index \in 0..(BufferSize - 1), bend \in {1, 2} :
          LET id == Len(kout.objs) + 1
              obj == IntegratorResult(last_index, bend)
          IN  /\ kout' = [kout EXCEPT !.objs = Append(kout.objs, obj)]
              /\ problem' = [problem EXCEPT !.trajs = Append(problem.trajs, id)]
              /\ run' = [run EXCEPT !.pc = pc, !.traj = id,
                                    !.returned = Append(run.returned, obj)]

\* a caller of the problem asks for a trajectory
CallIntegrate ==
    /\ run.pc = "idle"
    /\ integrate_trajectory("idle")
    /\ UNCHANGED <<kin, rft>>

\* solve(), lines 64-73: the stopping condition reads self.mp._geod_l
SolveBegin ==
    /\ run.pc = "idle"
    /\ run.err = "none"
    /\ Len(kout.objs) < MaxObjects
    /\ IF "_geod_l" \in problem.attrs
       THEN run' = [run EXCEPT !.pc = "line74"]
       ELSE run' = [run EXCEPT !.err = "AttributeError"]
    /\ UNCHANGED <<kin, kout, rft, problem>>

\* solve(), line 74
SolveIntegrate ==
    /\ run.pc = "line74"
    /\ integrate_trajectory("line75")
    /\ UNCHANGED <<kin, rft>>

\* solve(), lines 75-79
SolveReorder ==
    /\ run.pc = "line75"
    /\ LET traj == kout.objs[run.traj]
           li == traj.last_index
       IN  kout' = [kout EXCEPT !.objs[run.traj] =
                       [traj EXCEPT !.timestamps = ReversedUpTo(traj.timestamps, li),
                                    !.points = ReversedUpTo(traj.points, li),
                                    !.type = "TRAJ_OPTIMAL"]
                       @@ [info |-> "RFT"]]
    /\ run' = [run EXCEPT !.pc = "idle"]
    /\ UNCHANGED <<kin, rft, problem>>

NextSolve == CallIntegrate \/ SolveBegin \/ SolveIntegrate \/ SolveReorder

SpecSolve == InitSolve /\ [][NextSolve]_vars

\* the identities held by someone other than the caller that asked for them
HeldElsewhere == {problem.trajs[k] : k \in DOMAIN problem.trajs}

\* C12: a Trajectory that integrate_trajectory has returned keeps every field
\* it had then, whatever the program does afterwards, SolverRP.solve()
\* included, and only the caller that asked for it holds it.
C12_ReturnedTrajectoryUnchanged ==
    \A id \in DOMAIN kout.objs :
        /\ kout.objs[id] = run.returned[id]
        /\ id \notin HeldElsewhere

(***************************************************************************)
(* MermozProblem.dualize (mermoz/problem.py).  problem is the sequence of  *)
(* the problem objects built so far; their arrays and lists live in        *)
(* kout.arrays and their models in kout.models, and an object's fields     *)
(* hold positions in these (identities).  parent is history: the object    *)
(* dualize() was called on, 0 for the problem the program built itself.    *)
(* run records the last operation: its name, the object it was called on   *)
(* and that object, with everything it refers to, before the call.         *)
(* ZermeloGeneralModel and the wind's dualize() are not part of the        *)
(* sources: the model is the record of its two arguments and its wind, and *)
(* the dual wind is the wind with every component negated.                 *)
(***************************************************************************)
MaxProblems == 3

Neg(v) == <<0 - v[1], 0 - v[2]>>

\* wind.dualize()
wind_dualize(w) ==
    [w EXCEPT !.wind_vector = Neg(w.wind_vector), !.v_w1 = 0 - w.v_w1, !.v_w2 = 0 - w.v_w2]

\* ZermeloGeneralModel(v_a, coords) followed by update_wind(wind)
ZermeloGeneralModel(v_a, coords, wind) ==
    [v_a |-> v_a, coords |-> coords, wind |-> wind]

\* MermozProblem.__init__ with bl, tr and domain given: x_init, x_target, bl
\* and tr are copied into new arrays, trajs is a new empty list; the object
\* takes the positions next + 1 .. next + 5 of kout.arrays
MermozProblem_new(model, next, parent) ==
    [ model |-> model, x_init |-> next + 1, x_target |-> next + 2,
      bl |-> next + 3, tr |-> next + 4, trajs |-> next + 5, parent |-> parent ]

MermozProblem_arrays(x_init, x_target, bl, tr) ==
    <<x_init, x_target, bl, tr, <<>>>>

\* kwargs['x_init'] and kwargs['x_target'] of dualize(), lines 192-197
dual_x_init_Kept(self, arrays) == arrays[self.x_init]

dual_x_init(self, arrays) == arrays[self.x_target]

dual_x_target(self, arrays) == arrays[self.x_init]

\* dual_model of dualize(), lines 185-186
dual_model(model) ==
    ZermeloGeneralModel(model.v_a, model.coords, wind_dualize(model.wind))

\* an object together with everything it refers to
Snapshot(self) ==
    [ self |-> self,
      model |-> kout.models[self.model],
      x_init |-> kout.arrays[self.x_init], x_target |-> kout.arrays[self.x_target],
      bl |-> kout.arrays[self.bl], tr |-> kout.arrays[self.tr],
      trajs |-> kout.arrays[self.trajs] ]

EndPoints == {<<0, 0>>, <<1000, 0>>, <<1000, 2000>>}

InitDual ==
    /\ rft = NoRft
    /\ kin = NoKernelIn
    /\ \E wind \in WindModels, x_init \in EndPoints, x_target \in EndPoints :
          /\ kout = [ arrays |-> MermozProblem_arrays(x_init, x_target,
                                                     <<-500, -500>>, <<2500, 2500>>),
                      models |-> <<ZermeloGeneralModel(1000, "cartesian", wind)>> ]
          /\ problem = <<MermozProblem_new(1, 0, 0)>>
    /\ run = [op |-> "none", self |-> 0]

\* mp.dualize() on one of the problems
Dualize ==
    /\ Len(problem) < MaxProblems
    /\ \E i \in DOMAIN problem :
          /\ kout' = [ arrays |-> kout.arrays \o
                          MermozProblem_arrays(dual_x_init(problem[i], kout.arrays),
                                               dual_x_target(problem[i], kout.arrays),
                                               kout.arrays[problem[i].bl],
                                               kout.arrays[problem[i].tr]),
                       models |-> Append(kout.models,
                                         dual_model(kout.models[problem[i].model])) ]
          /\ problem' = Append(problem,
                               MermozProblem_new(Len(kout.models) + 1, Len(kout.arrays), i))
          /\ run' = [op |-> "dualize", self |-> i, before |-> Snapshot(problem[i])]
    /\ UNCHANGED <<kin, rft>>

\* mp.integrate_trajectory(...) on one of the problems: self.trajs.append(traj)
AppendTraj ==
    /\ \E i \in DOMAIN problem :
          /\ Len(kout.arrays[problem[i].trajs]) < MaxTrajs
          /\ kout' = [kout EXCEPT !.arrays[problem[i].trajs] =
                          Append(@, Len(kout.arrays[problem[i].trajs]) + 1)]
          /\ run' = [op |-> "integrate_trajectory", self |-> i]
    /\ UNCHANGED <<kin, rft, problem>>

NextDual == Dualize \/ AppendTraj

SpecDual == InitDual /\ [][NextDual]_vars

\* the positions of kout.arrays an object refers to
ArraysOf(self) == {self.x_init, self.x_target, self.bl, self.tr, self.trajs}

WindProbes == {<<0, 0>>, <<1500, 0>>, <<2000, 1000>>}

\* d is the dual of p
IsDualOf(d, p) ==
    /\ kout.arrays[d.x_init] = kout.arrays[p.x_target]
    /\ kout.arrays[d.x_target] = kout.arrays[p.x_init]
    /\ \A x \in WindProbes :
          wind_value(kout.models[d.model].wind, x)
              = Neg(wind_value(kout.models[p.model].wind, x))
    /\ ArraysOf(d) \cap ArraysOf(p) = {}
    /\ d.model # p.model

\* C14: dualize() returns a new problem whose x_init is the original's
\* x_target, whose x_target is the original's x_init and whose wind is the
\* original's negated; the original's x_init, x_target, model and trajs are
\* as they were before the call and no array or list of the original is one of
\* the dual's; the dual of the dual has the original's x_init and x_target.
C14_DualizeSwapsAndMirrors ==
    /\ \A k \in DOMAIN problem :
          problem[k].parent # 0 =>
             /\ IsDualOf(problem[k], problem[problem[k].parent])
             /\ problem[problem[k].parent].parent # 0 =>
                   /\ kout.arrays[problem[k].x_init]
                         = kout.arrays[problem[problem[problem[k].parent].parent].x_init]
                   /\ kout.arrays[problem[k].x_target]
                         = kout.arrays[problem[problem[problem[k].parent].parent].x_target]
    /\ run.op = "dualize" => Snapshot(problem[run.self]) = run.before

\* a dual of a dual exists, of a problem with a two-sector wind, distinct end
\* points and a trajectory already in its list, and dualize() was the last call
C14_Witness ==
    /\ run.op = "dualize"
    /\ \E k \in DOMAIN problem :
          /\ problem[k].parent > 1
          /\ problem[problem[k].parent].parent = 1
    /\ kout.models[1].wind.kind = "two_sectors"
    /\ kout.arrays[problem[1].x_init] # kout.arrays[problem[1].x_target]
    /\ kout.arrays[problem[1].trajs] # <<>>
    /\ kout.arrays[problem[run.self].trajs] # <<>>

(***************************************************************************)
(* Wind (wind.py): sum, product by a number, and evaluation.  A numpy      *)
(* value is the record of its rank (0 a number, 1 a vector of 2, 2 a       *)
(* matrix of 2 x 2) and its elements in row order.  kin holds the operands *)
(* a, b, other and the point x; kout holds the last operation's outcome.   *)
(***************************************************************************)
Number(s) == [rank |-> 0, data |-> <<s>>]

Vector(v) == [rank |-> 1, data |-> <<v[1], v[2]>>]

Matrix(a, b, c, d) == [rank |-> 2, data |-> <<a, b, c, d>>]

\* the elements of u broadcast to a 2 x 2 matrix
Broadcast(u) ==
    IF u.rank = 0 THEN <<u.data[1], u.data[1], u.data[1], u.data[1]>>
    ELSE IF u.rank = 1 THEN <<u.data[1], u.data[2], u.data[1], u.data[2]>>
    ELSE u.data

\* u + v of numpy
np_add(u, v) ==
    IF u.rank = 0 /\ v.rank = 0 THEN Number(u.data[1] + v.data[1])
    ELSE IF u.rank <= 1 /\ v.rank <= 1
         THEN [rank |-> 1, data |-> <<Broadcast(u)[1] + Broadcast(v)[1],
                                      Broadcast(u)[2] + Broadcast(v)[2]>>]
         ELSE [rank |-> 2, data |-> [k \in 1..4 |-> Broadcast(u)[k] + Broadcast(v)[k]]]

\* np.array_equal after broadcasting
np_equal(u, v) == Broadcast(u) = Broadcast(v)

\* self._value_func(x) and self._d_value_func(x) of TwoSectorsWind and UniformWind
value_func(w, x) == Vector(wind_value(w, x))

d_value_func(w, x) ==
    IF w.kind = "uniform" THEN Number(0) ELSE Matrix(0, 0, 0, 0)

\* (self + other).value(x) and (self + other).d_value(x)
add_value(self, other, x) == np_add(value_func(self, x), value_func(other, x))

add_d_value(self, other, x) == np_add(d_value_func(self, x), value_func(other, x))

\* other * self._value_func: Python's product of a number and a function object
times_function(other) == "TypeError"

\* self * other
mul(self, other) ==
    IF other.type = "float"
    THEN times_function(other)
    ELSE "TypeError"

Floats == { [type |-> "float", v |-> 2000], [type |-> "float", v |-> -1000],
            [type |-> "float", v |-> 0], [type |-> "int", v |-> 2000] }

WindPoints == {<<0, 0>>, <<1500, 0>>, <<2000, 500>>, <<1499, -500>>}

NoWindOut == [op |-> "none", err |-> "none", value |-> Number(0), d_value |-> Number(0)]

InitWind ==
    /\ rft = NoRft
    /\ run = NoRun
    /\ problem = NoProblem
    /\ \E a \in WindModels, b \in WindModels, other \in Floats, x \in WindPoints :
          kin = [a |-> a, b |-> b, other |-> other, x |-> x]
    /\ kout = NoWindOut

\* (a + b).value(x) and (a + b).d_value(x)
WindAdd ==
    /\ kout' = [NoWindOut EXCEPT !.op = "add",
                                 !.value = add_value(kin.a, kin.b, kin.x),
                                 !.d_value = add_d_value(kin.a, kin.b, kin.x)]
    /\ kout' # kout
    /\ UNCHANGED <<kin, rft, run, problem>>

\* a * other
WindMul ==
    /\ kout' = [NoWindOut EXCEPT !.op = "mul", !.err = mul(kin.a, kin.other)]
    /\ kout' # kout
    /\ UNCHANGED <<kin, rft, run, problem>>

\* a.value(x)
WindValue ==
    /\ kout' = [NoWindOut EXCEPT !.op = "value", !.value = value_func(kin.a, kin.x)]
    /\ kout' # kout
    /\ UNCHANGED <<kin, rft, run, problem>>

NextWind == WindAdd \/ WindMul \/ WindValue

SpecWind == InitWind /\ [][NextWind]_vars

\* C15: the sum of two winds evaluates to the sum of their values, and its
\* Jacobian to the sum of their Jacobians.
C15_SumIsLinear ==
    kout.op = "add" =>
        /\ np_equal(kout.value, np_add(value_func(kin.a, kin.x), value_func(kin.b, kin.x)))
        /\ np_equal(kout.d_value,
                    np_add(d_value_func(kin.a, kin.x), d_value_func(kin.b, kin.x)))

\* C16: the product of a wind by a float c, negative ones included, is a Wind
\* whose value is c times the wind's value (and likewise for the Jacobian).
C16_ProductByFloatIsAWind ==
    (kout.op = "mul" /\ kin.other.type = "float") => kout.err = "none"

\* C17: the value of a TwoSectorsWind has x-component 0 and y-component v_w1
\* where x[0] < x_switch, v_w2 where x[0] >= x_switch, x_switch included.
C17_SectorByXSwitch ==
    (kout.op = "value" /\ kin.a.kind = "two_sectors") =>
        kout.value = Vector(<<0, IF kin.x[1] < kin.a.x_switch
                                 THEN kin.a.v_w1 ELSE kin.a.v_w2>>)

(***************************************************************************)
(* FrameObs (dabry/obstacle.py): the rectangle with corners bl and tr as   *)
(* an obstacle function.  Lengths are in units of 1/Scale; the rectangles  *)
(* and the query points are taken on a lattice for which every quotient    *)
(* the code forms is exact.  kin holds the rectangle, t and x; kout holds  *)
(* the outcome of the last call.                                           *)
(***************************************************************************)
\* FrameObs.__init__: scaler is diagonal, kept as its two diagonal elements
FrameObs_init(bl, tr) ==
    [ bl |-> bl, tr |-> tr,
      center |-> <<Quot(bl[1] + tr[1], 2), Quot(bl[2] + tr[2], 2)>>,
      scaler |-> <<FDiv(Scale, Quot(tr[1] - bl[1], 2)), FDiv(Scale, Quot(tr[2] - bl[2], 2))>> ]

\* np.dot(x[..., :2] - self.center, self.scaler)
rescaled(self, x) ==
    <<FMul(x[1] - self.center[1], self.scaler[1]), FMul(x[2] - self.center[2], self.scaler[2])>>

\* 1. - np.max(np.abs(xx), -1)
one_minus_max_Min(xx) == Scale - Min(Abs(xx[1]), Abs(xx[2]))

one_minus_max(xx) == Scale - Max(Abs(xx[1]), Abs(xx[2]))

\* FrameObs.value(t, x)
FrameObs_value(self, t, x) == one_minus_max(rescaled(self, x))

\* the nested np.where of d_value on c1 = xx . (1, 1) and c2 = xx . (1, -1)
where_g(c1, c2, g1, g2, g3, g4) ==
    IF c1 > 0 /\ c2 > 0 THEN g1
    ELSE IF c1 > 0 /\ c2 < 0 THEN g2
    ELSE IF c1 < 0 /\ c2 < 0 THEN g3
    ELSE g4

frame_d_value(self, xx) ==
    where_g(xx[1] + xx[2], xx[1] - xx[2],
            <<0 - self.scaler[1], 0>>, <<0, 0 - self.scaler[2]>>,
            <<self.scaler[1], 0>>, <<0, self.scaler[2]>>)

\* FrameObs.d_value(t, x)
FrameObs_d_value(self, t, x) == frame_d_value(self, rescaled(self, x))

Frames ==
    { FrameObs_init(<<0, 0>>, <<2000, 2000>>),
      FrameObs_init(<<-1000, 0>>, <<1000, 4000>>),
      FrameObs_init(<<0, -500>>, <<4000, 500>>) }

FramePoints == { <<500 * i, 250 * j>> : i \in -3..9, j \in -3..17 }

NoFrameOut == [op |-> "none", value |-> 0, d_value |-> <<0, 0>>]

InitFrame ==
    /\ rft = NoRft
    /\ run = NoRun
    /\ problem = NoProblem
    /\ \E self \in Frames, t \in {0, 1}, x \in FramePoints :
          kin = [self |-> self, t |-> t, x |-> x]
    /\ kout = NoFrameOut

FrameValue ==
    /\ kout' = [NoFrameOut EXCEPT !.op = "value",
                                  !.value = FrameObs_value(kin.self, kin.t, kin.x)]
    /\ kout' # kout
    /\ UNCHANGED <<kin, rft, run, problem>>

FrameDValue ==
    /\ kout' = [NoFrameOut EXCEPT !.op = "d_value",
                                  !.d_value = FrameObs_d_value(kin.self, kin.t, kin.x)]
    /\ kout' # kout
    /\ UNCHANGED <<kin, rft, run, problem>>

NextFrame == FrameValue \/ FrameDValue

SpecFrame == InitFrame /\ [][NextFrame]_vars

\* x in coordinates in which the rectangle is the box -1..1 by -1..1
UnitBoxCoords(bl, tr, x) ==
    << Quot(2 * Scale * (x[1] - bl[1]), tr[1] - bl[1]) - Scale,
       Quot(2 * Scale * (x[2] - bl[2]), tr[2] - bl[2]) - Scale >>

\* the signed distances from the point u of the box to its sides +x, -y, -x, +y
SideDistances(u) == <<Scale - u[1], Scale + u[2], Scale + u[1], Scale - u[2]>>

Min4(d) == Min(Min(d[1], d[2]), Min(d[3], d[4]))

StrictlyInside(bl, tr, x) ==
    bl[1] < x[1] /\ x[1] < tr[1] /\ bl[2] < x[2] /\ x[2] < tr[2]

StrictlyOutside(bl, tr, x) ==
    x[1] < bl[1] \/ tr[1] < x[1] \/ x[2] < bl[2] \/ tr[2] < x[2]

\* C18: the value of a FrameObs is the least of the four signed distances from
\* x to the sides in the rescaled box; positive strictly inside the rectangle,
\* zero on its boundary, negative strictly outside, whatever t.
C18_FrameValueIsLeastSideDistance ==
    kout.op = "value" =>
        /\ kout.value = Min4(SideDistances(UnitBoxCoords(kin.self.bl, kin.self.tr, kin.x)))
        /\ StrictlyInside(kin.self.bl, kin.self.tr, kin.x) <=> kout.value > 0
        /\ StrictlyOutside(kin.self.bl, kin.self.tr, kin.x) <=> kout.value < 0

\* a value asked on the upper side of a rectangle that is not a square, at a
\* time other than 0
C18_Witness ==
    /\ kout.op = "value"
    /\ kout.value = 0
    /\ kin.t = 1
    /\ kin.x[2] = kin.self.tr[2]
    /\ kin.self.scaler[1] # kin.self.scaler[2]

\* the gradients of the distances to the sides +x, -y, -x, +y
SideGradients(self) ==
    << <<0 - self.scaler[1], 0>>, <<0, self.scaler[2]>>,
       <<self.scaler[1], 0>>, <<0, 0 - self.scaler[2]>> >>

\* the first side, in the order +x, -y, -x, +y, that is nearest to u
FirstNearest(d) == CHOOSE k \in 1..4 : d[k] = Min4(d) /\ \A j \in 1..(k - 1) : d[j] # Min4(d)

\* C19: d_value is the gradient of the distance to the nearest side, and where
\* several sides are equally near, of the first of them in the order
\* +x, -y, -x, +y.
C19_GradientOfFirstNearestSide ==
    kout.op = "d_value" =>
        kout.d_value = SideGradients(kin.self)[
            FirstNearest(SideDistances(UnitBoxCoords(kin.self.bl, kin.self.tr, kin.x)))]

(***************************************************************************)
(* GreatCircleObs (dabry/obstacle.py): the half of the sphere on one side  *)
(* of the great circle through p1 and p2, active inside the longitude /    *)
(* latitude box from z1 to z2 when one is given.  Angles are in degrees    *)
(* and range over quarter turns, for which sines and cosines are exact;    *)
(* the other numbers are in units of 1/Scale.  Utils.in_lonlat_box is not  *)
(* part of the sources: it is the closed box test on the two coordinates.  *)
(***************************************************************************)
cos(a) == IF a = 0 THEN Scale ELSE IF a = 180 THEN 0 - Scale ELSE 0

sin(a) == IF a = 90 THEN Scale ELSE IF a = -90 THEN 0 - Scale ELSE 0

\* np.array((cos(x[0]) * cos(x[1]), sin(x[0]) * cos(x[1]), sin(x[1])))
Embed(x) == <<FMul(cos(x[1]), cos(x[2])), FMul(sin(x[1]), cos(x[2])), sin(x[2])>>

cross(a, b) ==
    << FMul(a[2], b[3]) - FMul(a[3], b[2]),
       FMul(a[3], b[1]) - FMul(a[1], b[3]),
       FMul(a[1], b[2]) - FMul(a[2], b[1]) >>

Dot3(a, b) == FMul(a[1], b[1]) + FMul(a[2], b[2]) + FMul(a[3], b[3])

Norm3(a) == ISqrt(a[1] * a[1] + a[2] * a[2] + a[3] * a[3])

\* self.dir_vect = -np.cross(X1, X2); self.dir_vect /= np.linalg.norm(self.dir_vect)
dir_vect(X1, X2) ==
    [k \in 1..3 |-> FDiv(0 - cross(X1, X2)[k], Norm3(cross(X1, X2)))]

\* GreatCircleObs.__init__ without autobox; has_zone is 'z1 is not None'
GreatCircleObs_init(p1, p2, has_zone, z1, z2) ==
    [ has_zone |-> has_zone, z1 |-> z1, z2 |-> z2,
      dir_vect |-> dir_vect(Embed(p1), Embed(p2)) ]

\* Utils.in_lonlat_box(z1, z2, x)
in_lonlat_box(z1, z2, x) ==
    z1[1] <= x[1] /\ x[1] <= z2[1] /\ z1[2] <= x[2] /\ x[2] <= z2[2]

\* GreatCircleObs.value(_, x)
GreatCircleObs_value_NoZone(self, t, x) == Dot3(Embed(x), self.dir_vect)

GreatCircleObs_value(self, t, x) ==
    IF self.has_zone /\ ~in_lonlat_box(self.z1, self.z2, x)
    THEN Scale
    ELSE Dot3(Embed(x), self.dir_vect)

SpherePoints == { <<lon, lat>> : lon \in {-90, 0, 90, 180}, lat \in {-90, 0, 90} }

Zones == { [has_zone |-> FALSE, z1 |-> <<0, 0>>, z2 |-> <<0, 0>>],
           [has_zone |-> TRUE, z1 |-> <<-90, 0>>, z2 |-> <<90, 90>>],
           [has_zone |-> TRUE, z1 |-> <<0, -90>>, z2 |-> <<180, 0>>] }

NoGreatCircleOut == [op |-> "none", value |-> 0]

\* p1 and p2 are neither equal nor opposite: they define one great circle
InitGreatCircle ==
    /\ rft = NoRft
    /\ run = NoRun
    /\ problem = NoProblem
    /\ \E p1 \in SpherePoints, p2 \in SpherePoints, zone \in Zones,
          t \in {0, 1}, x \in SpherePoints :
          /\ cross(Embed(p1), Embed(p2)) # <<0, 0, 0>>
          /\ kin = [ self |-> GreatCircleObs_init(p1, p2, zone.has_zone, zone.z1, zone.z2),
                     t |-> t, x |-> x ]
    /\ kout = NoGreatCircleOut

GreatCircleValue ==
    /\ kout' = [op |-> "value", value |-> GreatCircleObs_value(kin.self, kin.t, kin.x)]
    /\ kout' # kout
    /\ UNCHANGED <<kin, rft, run, problem>>

NextGreatCircle == GreatCircleValue

SpecGreatCircle == InitGreatCircle /\ [][NextGreatCircle]_vars

\* C20: with a zone, the value at any x outside the box from z1 to z2 is the
\* one positive number 1, on whichever side of the great circle x is; the
\* product of the embedded point with the normal is the value only inside
\* the zone or without a zone.
C20_SentinelOutsideZone ==
    kout.op = "value" =>
        IF kin.self.has_zone /\ ~in_lonlat_box(kin.self.z1, kin.self.z2, kin.x)
        THEN kout.value = Scale /\ kout.value > 0
        ELSE kout.value = Dot3(Embed(kin.x), kin.self.dir_vect)

\* a point outside the zone on the obstacle's side of the great circle
C20_Witness ==
    /\ kout.op = "value"
    /\ kin.self.has_zone
    /\ ~in_lonlat_box(kin.self.z1, kin.self.z2, kin.x)
    /\ Dot3(Embed(kin.x), kin.self.dir_vect) < 0
    /\ kout.value = Scale

(***************************************************************************)
(* DiscreteObs.__init__ (dabry/obstacle.py), statement by statement.  kin  *)
(* holds the arguments: values by its shape, bounds by its number of rows  *)
(* (each row is one [min, max] pair), no_diff, and whether interp is       *)
(* given.  kout holds the instance attributes set so far, run the position *)
(* in the constructor and the exception that ended it.  The interpolator   *)
(* class belongs to scipy: building it either succeeds or raises.          *)
(***************************************************************************)
\* the most dimensions of values, and the most points along one of them
MaxDim == 3
MaxPoints == 3

\* values.ndim and bounds.shape[0]
ndim(values) == Len(values.shape)

\* the test of line 152
incompatible_shape_Cols(values, bounds) == bounds.cols # ndim(values)

incompatible_shape(values, bounds) == bounds.rows # ndim(values)

\* lines 160-181: the evaluators, and the axes of the mesh; bounds.T[0][k]
\* and values.shape[k] exist only for k below the number of rows and ndim
evaluators(values, bounds) ==
    IF ndim(values) = 2
    THEN [err |-> "none", attrs |-> {"value", "d_value", "d_value_dt"},
          value |-> "_value_steady", axes |-> 2]
    ELSE IF bounds.rows >= 3 /\ ndim(values) >= 3
    THEN [err |-> "none", attrs |-> {"value", "d_value", "d_value_dt", "t_start", "t_end"},
          value |-> "_value_unsteady", axes |-> 3]
    ELSE [err |-> "IndexError", attrs |-> {"value", "d_value", "d_value_dt", "t_start", "t_end"},
          value |-> "_value_unsteady", axes |-> 0]

Shapes == UNION { [1..n -> 2..MaxPoints] : n \in 1..MaxDim }

InitDiscreteObs ==
    /\ rft = NoRft
    /\ problem = NoProblem
    /\ \E shape \in Shapes, rows \in 1..(MaxDim + 1), no_diff \in BOOLEAN, interp \in BOOLEAN :
          kin = [ values |-> [shape |-> shape], bounds |-> [rows |-> rows, cols |-> 2],
                  no_diff |-> no_diff, interp |-> interp ]
    /\ kout = [attrs |-> {}, value |-> "none"]
    /\ run = [pc |-> "line152", err |-> "none"]

\* lines 152-155
CheckShape ==
    /\ run.pc = "line152"
    /\ IF incompatible_shape(kin.values, kin.bounds)
       THEN run' = [pc |-> "raised", err |-> "Exception"]
       ELSE run' = [run EXCEPT !.pc = "line157"]
    /\ UNCHANGED <<kin, kout, rft, problem>>

\* lines 157-158
CopyArrays ==
    /\ run.pc = "line157"
    /\ kout' = [kout EXCEPT !.attrs = kout.attrs \cup {"values", "bounds"}]
    /\ run' = [run EXCEPT !.pc = "line160"]
    /\ UNCHANGED <<kin, rft, problem>>

\* lines 160-181
SetEvaluators ==
    /\ run.pc = "line160"
    /\ kout' = [kout EXCEPT !.attrs = kout.attrs \cup evaluators(kin.values, kin.bounds).attrs,
                            !.value = evaluators(kin.values, kin.bounds).value]
    /\ IF evaluators(kin.values, kin.bounds).err = "none"
       THEN run' = [run EXCEPT !.pc = "line183"]
       ELSE run' = [pc |-> "raised", err |-> evaluators(kin.values, kin.bounds).err]
    /\ UNCHANGED <<kin, rft, problem>>

\* lines 183-189
SetInterp ==
    /\ run.pc = "line183"
    /\ \/ /\ kout' = [kout EXCEPT !.attrs = kout.attrs \cup {"interp"}]
          /\ run' = [run EXCEPT !.pc = "built"]
       \/ /\ ~kin.interp
          /\ kout' = kout
          /\ run' = [pc |-> "raised", err |-> "ValueError"]
    /\ UNCHANGED <<kin, rft, problem>>

NextDiscreteObs == CheckShape \/ CopyArrays \/ SetEvaluators \/ SetInterp

SpecDiscreteObs == InitDiscreteObs /\ [][NextDiscreteObs]_vars

\* C21: when bounds.shape[0] differs from values.ndim the constructor ends
\* with an error, and no attribute of the obstacle has been set by then.
C21_ShapeMismatchRaisesFirst ==
    (kin.bounds.rows # Len(kin.values.shape)) =>
        /\ run.pc \in {"line152", "raised"}
        /\ run.pc = "raised" => run.err = "Exception"
        /\ kout.attrs = {}

\* the constructor has raised on three-dimensional values with two rows of bounds
C21_Witness ==
    /\ run.pc = "raised"
    /\ run.err = "Exception"
    /\ Len(kin.values.shape) = 3
    /\ kin.bounds.rows = 2

(***************************************************************************)
(* grad_phi_obs (MermozProblem.__init__, mermoz/problem.py).  Lengths are  *)
(* whole multiples of one millionth of the shortest geod_l, so that dx is  *)
(* a whole number and the quotients of the differences are exact.  The     *)
(* constructor's loop is taken one turn at a time: run.phi is the loop     *)
(* variable phi of the constructor's frame (the position in phi_obs it is  *)
(* bound to), which the lambdas stored in grad_phi_obs refer to; run.k is  *)
(* the number of turns done.  problem.grad_phi_obs is the set of keys that *)
(* have a gradient function.  kin is the query a caller makes afterwards.  *)
(***************************************************************************)
\* the 1e6 of line 108
Million == 1000000

\* an obstacle function with a term in the square of x[0]
curved_value(phi, t, x) == phi_value(phi, t, x) + phi.q * x[1] * x[1]

CurvedFunctions ==
    { [ax |-> 1, ay |-> 0, ct |-> 0, c |-> -1, q |-> 0],
      [ax |-> 0, ay |-> -1, ct |-> 1, c |-> 1, q |-> 1],
      [ax |-> 2, ay |-> 3, ct |-> 0, c |-> -2, q |-> -1] }

\* dx = self.geod_l / 1e6
dx_of(geod_l) == Quot(geod_l, Million)

\* the body of the lambda of lines 112-113 for the obstacle function phi
forward_difference(phi, dx, t, x) ==
    << Quot(curved_value(phi, t, <<x[1] + dx, x[2]>>) - curved_value(phi, t, x), dx),
       Quot(curved_value(phi, t, <<x[1], x[2] + dx>>) - curved_value(phi, t, x), dx) >>

\* self.grad_phi_obs[k](t, x): the lambda reads phi from the constructor's
\* frame when it is called
grad_phi_obs(self, frame, k, t, x) ==
    forward_difference(self.phi_obs[frame.phi], dx_of(self.geod_l), t, x)

InitGrad ==
    /\ rft = NoRft
    /\ \E phi_obs \in SeqsUpTo(CurvedFunctions, MaxObs), geod_l \in {Million, 2 * Million} :
          problem = [geod_l |-> geod_l, phi_obs |-> phi_obs, grad_phi_obs |-> {}]
    /\ \E t \in {0, 1}, x \in {<<0, 0>>, <<3, 1>>, <<-40, 7>>} :
          kin = [t |-> t, x |-> x]
    /\ run = [pc |-> "line110", k |-> 0, phi |-> 0]
    /\ kout = [asked |-> FALSE, k |-> 0, grad |-> <<0, 0>>]

\* one turn of the loop of lines 110-113
BindGradient ==
    /\ run.pc = "line110"
    /\ run.k < Len(problem.phi_obs)
    /\ run' = [run EXCEPT !.k = run.k + 1, !.phi = run.k + 1]
    /\ problem' = [problem EXCEPT !.grad_phi_obs = problem.grad_phi_obs \cup {run.k + 1}]
    /\ UNCHANGED <<kin, kout, rft>>

\* the loop ends and the constructor returns
EndOfLoop ==
    /\ run.pc = "line110"
    /\ run.k = Len(problem.phi_obs)
    /\ run' = [run EXCEPT !.pc = "built"]
    /\ UNCHANGED <<kin, kout, rft, problem>>

\* a caller evaluates mp.grad_phi_obs[k](t, x)
QueryGradient ==
    /\ run.pc = "built"
    /\ ~kout.asked
    /\ \E k \in problem.grad_phi_obs :
          kout' = [asked |-> TRUE, k |-> k,
                   grad |-> grad_phi_obs(problem, run, k, kin.t, kin.x)]
    /\ UNCHANGED <<kin, rft, run, problem>>

NextGrad == BindGradient \/ EndOfLoop \/ QueryGradient

SpecGrad == InitGrad /\ [][NextGrad]_vars

\* (f(t, x + eps e_i) - f(t, x - eps e_i)) / (2 eps) for the two axes
CentredDifference(phi, eps, t, x) ==
    << Quot(curved_value(phi, t, <<x[1] + eps, x[2]>>)
              - curved_value(phi, t, <<x[1] - eps, x[2]>>), 2 * eps),
       Quot(curved_value(phi, t, <<x[1], x[2] + eps>>)
              - curved_value(phi, t, <<x[1], x[2] - eps>>), 2 * eps) >>

\* C22: the gradient function of an obstacle function is its centred finite
\* difference with step eps = reference length * 1e-5.
C22_GradientIsCentredDifference ==
    kout.asked =>
        kout.grad = CentredDifference(problem.phi_obs[kout.k],
                                      Quot(problem.geod_l, 100000), kin.t, kin.x)

\* C29: for every key k, grad_phi_obs[k](t, x) is the finite difference of
\* phi_obs[k] itself at (t, x), not of another obstacle function.
C29_GradientOfOwnObstacle ==
    kout.asked =>
        kout.grad = forward_difference(problem.phi_obs[kout.k],
                                       dx_of(problem.geod_l), kin.t, kin.x)

(***************************************************************************)
(* The 'lolla' scheme as three stages, as the claim states them.           *)
(***************************************************************************)
\* phi - (delta_t / 2) * speed * |grad phi|
EikonalHalfStep(self, phi) ==
    half_step(self, phi, norm_grad(phi, self.delta_x, self.delta_y, "central"))

\* phi - delta_t * (wind[t] . grad phi)
AdvectionStep(self, phi) ==
    advect_step(self, phi, self.wind[self.t], grad(phi, self.delta_x, self.delta_y, "central"))

\* C24: with method 'lolla' a call of update_phi() that returns has left
\* slice t as it was and has set slice t + 1 to the result of three chained
\* stages: the half eikonal step of phi[t], the advection step of that, the
\* half eikonal step of that.
C24_LollaThreeStages ==
    [][ (rft.method = "lolla" /\ rft'.t = rft.t + 1) =>
            /\ rft'.phi[rft.t] = rft.phi[rft.t]
            /\ rft'.phi[rft.t + 1] =
                  EikonalHalfStep(rft, AdvectionStep(rft, EikonalHalfStep(rft, rft.phi[rft.t])))
      ]_vars

\* a 'lolla' update has returned on a sloping phi in a wind that is not zero
C24_Witness ==
    /\ Returned
    /\ rft.method = "lolla"
    /\ rft.t >= 1
    /\ rft.wind[rft.t - 1][1][1] # <<0, 0>>
    /\ rft.phi[rft.t - 1][1][1] # rft.phi[rft.t - 1][2][1]
    /\ rft.phi[rft.t] # rft.phi[rft.t - 1]

\* the Trajectory objects solve() has put back in time order
Reordered == {id \in DOMAIN kout.objs : kout.objs[id].type = "TRAJ_OPTIMAL"}

\* C25: solve() reverses timestamps, points and controls together over the
\* samples 0..last_index, so that controls[k] still belongs to points[k] and
\* timestamps[k]; the samples after last_index are as the integrator left them.
C25_SolveReversesAllArrays ==
    \A id \in Reordered :
        /\ kout.objs[id].timestamps
              = ReversedUpTo(run.returned[id].timestamps, run.returned[id].last_index)
        /\ kout.objs[id].points
              = ReversedUpTo(run.returned[id].points, run.returned[id].last_index)
        /\ kout.objs[id].controls
              = ReversedUpTo(run.returned[id].controls, run.returned[id].last_index)

(***************************************************************************)
(* MermozProblem.eliminate_trajs (mermoz/problem.py).  problem.trajs holds *)
(* the trajectories themselves, as the integrator returns them: a buffer   *)
(* of BufferSize samples of which 0..last_index are used and the others    *)
(* are zeros.  kin holds target and tol, run the list before the call.     *)
(***************************************************************************)
\* np.linalg.norm(p - target) < tol, for tol >= 0
norm_below(p, target, tol) ==
    (p[1] - target[1]) * (p[1] - target[1]) + (p[2] - target[2]) * (p[2] - target[2])
        < tol * tol

\* the inner loop of lines 226-230: for id, p in enumerate(traj.points)
keep(traj, target, tol) ==
    \E k \in DOMAIN traj.points : norm_below(traj.points[k], target, tol)

\* lines 224-232
delete_index(trajs, target, tol) ==
    {k \in DOMAIN trajs : ~keep(trajs[k], target, tol)}

\* the sequence a without the positions of the set gone
RECURSIVE Without(_, _, _)
Without(a, gone, k) ==
    IF k > Len(a) THEN <<>>
    ELSE IF k \in gone THEN Without(a, gone, k + 1)
    ELSE <<a[k]>> \o Without(a, gone, k + 1)

\* eliminate_trajs(target, tol): self.trajs after the call
eliminate_trajs(self, target, tol) ==
    Without(self.trajs, delete_index(self.trajs, target, tol), 1)

IntegratorResults ==
    {IntegratorResult(last_index, bend) : last_index \in 0..(BufferSize - 1), bend \in {1, 2}}

InitEliminate ==
    /\ rft = NoRft
    /\ \E trajs \in SeqsUpTo(IntegratorResults, MaxTrajs) :
          problem = [MermozProblem_init(None, None) EXCEPT !.trajs = trajs]
    /\ \E target \in {<<0, 0>>, <<20, 8>>, <<40, 16>>}, tol \in {3, 15} :
          kin = [target |-> target, tol |-> tol]
    /\ run = [called |-> FALSE, before |-> <<>>]
    /\ kout = NoKernelOut

EliminateTrajs ==
    /\ ~run.called
    /\ problem' = [problem EXCEPT !.trajs = eliminate_trajs(problem, kin.target, kin.tol)]
    /\ run' = [called |-> TRUE, before |-> problem.trajs]
    /\ UNCHANGED <<kin, kout, rft>>

NextEliminate == EliminateTrajs

SpecEliminate == InitEliminate /\ [][NextEliminate]_vars

\* a sample 0..last_index of traj lies within tol of target
MeaningfulSampleNear(traj, target, tol) ==
    \E k \in 0..traj.last_index : norm_below(traj.points[k + 1], target, tol)

\* C26: eliminate_trajs keeps exactly the trajectories that have a sample
\* among 0..last_index within tol of target, in their order and unchanged;
\* the samples after last_index keep no trajectory.
C26_KeepsByMeaningfulSamples ==
    run.called =>
        problem.trajs =
            Without(run.before,
                    {k \in DOMAIN run.before :
                        ~MeaningfulSampleNear(run.before[k], kin.target, kin.tol)}, 1)

(***************************************************************************)
(* SolverRP.__init__ (mermoz/solver_rp.py) and the RFT it builds.  A       *)
(* Python value is the record of its type with, according to the type, a   *)
(* number n or an array a; the MermozProblem is the one held in problem.   *)
(* The call of line 59 binds its positional arguments to RFT.__init__'s    *)
(* parameters by position.  kin holds the arguments of SolverRP, run the   *)
(* position in the constructor, its locals and the exception that ended    *)
(* it, rft the tracker once built.  distance() of mermoz.misc is not part  *)
(* of the sources: it is the Euclidean distance.                           *)
(***************************************************************************)
PyInt(n) == [type |-> "int", n |-> n, a |-> <<0, 0>>]

PyFloat(n) == [type |-> "float", n |-> n, a |-> <<0, 0>>]

PyArray(a) == [type |-> "ndarray", n |-> 0, a |-> a]

PyProblem == [type |-> "MermozProblem", n |-> 0, a |-> <<0, 0>>]

PyNone == [type |-> "NoneType", n |-> 0, a |-> <<0, 0>>]

\* the parameters of RFT.__init__ in order, line 180, and their defaults
RFT_parameters == <<"bl", "tr", "max_time", "nx", "ny", "mp", "x_init", "nt">>

\* RFT(*args, kernel=kernel): each parameter takes the argument at its
\* position, nt its default None when there are seven arguments
bind(args, kernel) ==
    [ bl |-> args[1], tr |-> args[2], max_time |-> args[3], nx |-> args[4], ny |-> args[5],
      mp |-> args[6], x_init |-> args[7],
      nt |-> IF Len(args) >= Len(RFT_parameters) THEN args[8] ELSE PyNone,
      kernel |-> kernel ]

\* RFT.__init__ on bound parameters: the exception it raises, "none" when it
\* returns.  self.speed = mp.model.v_a needs mp to have the attribute model,
\* self.x_init[:] = x_init needs numbers
RFT_raises(b) ==
    IF b.mp.type # "MermozProblem" THEN "AttributeError"
    ELSE IF b.x_init.type # "ndarray" THEN "TypeError"
    ELSE "none"

\* lines 43-48: self.T
solver_T(mp, max_time) ==
    IF max_time.type = "NoneType"
    THEN PyFloat(FDiv(FMul(1200, Norm(mp.x_init, mp.x_target)), mp.v_a))
    ELSE max_time

\* the argument list of line 59
rft_arguments(mp, T, nx_rft, ny_rft, nt_rft) ==
    <<PyArray(mp.bl), PyArray(mp.tr), T, nx_rft, ny_rft, nt_rft, PyProblem>>

SolverProblems ==
    { [x_init |-> x_init, x_target |-> <<2000, 2000>>, bl |-> <<-500, -500>>, tr |-> tr,
       v_a |-> 1000] : x_init \in {<<0, 0>>, <<500, 1000>>}, tr \in {<<2500, 2500>>, <<3000, 4000>>} }

InitSolver ==
    /\ problem \in SolverProblems
    /\ \E nx_rft \in 2..4, ny_rft \in 2..4, nt_rft \in 2..3,
          max_time \in {PyNone, PyFloat(5000)} :
          kin = [ nx_rft |-> PyInt(nx_rft), ny_rft |-> PyInt(ny_rft),
                  nt_rft |-> PyInt(nt_rft), max_time |-> max_time ]
    /\ run = [pc |-> "line28", err |-> "none", T |-> PyNone]
    /\ rft = NoRft
    /\ kout = NoKernelOut

\* lines 28-57
SolverFields ==
    /\ run.pc = "line28"
    /\ run' = [run EXCEPT !.pc = "line59", !.T = solver_T(problem, kin.max_time)]
    /\ UNCHANGED <<kin, kout, rft, problem>>

\* lines 59-61: the tracker, then the dual problem
SolverBuildsRFT ==
    /\ run.pc = "line59"
    /\ \E b \in {bind(rft_arguments(problem, run.T, kin.nx_rft, kin.ny_rft, kin.nt_rft),
                      "matlab")} :
          IF RFT_raises(b) = "none"
          THEN /\ rft' = b
               /\ run' = [run EXCEPT !.pc = "built"]
          ELSE /\ rft' = rft
               /\ run' = [run EXCEPT !.pc = "raised", !.err = RFT_raises(b)]
    /\ UNCHANGED <<kin, kout, problem>>

NextSolver == SolverFields \/ SolverBuildsRFT

SpecSolver == InitSolver /\ [][NextSolver]_vars

\* C27: SolverRP.__init__ builds its RFT with mp as the tracker's problem,
\* the problem's start point as x_init, nt_rft as nt, nx_rft and ny_rft as
\* grid counts, (mp.bl, mp.tr) as box and T as time horizon.
C27_ArgumentsReachTheirParameters ==
    run.pc \notin {"line28", "line59"} =>
        /\ run.err = "none"
        /\ rft # NoRft
        /\ rft.mp = PyProblem
        /\ rft.x_init = PyArray(problem.x_init)
        /\ rft.nt = kin.nt_rft
        /\ rft.nx = kin.nx_rft
        /\ rft.ny = kin.ny_rft
        /\ rft.bl = PyArray(problem.bl)
        /\ rft.tr = PyArray(problem.tr)
        /\ rft.max_time = run.T

(***************************************************************************)
(* MermozProblem.__init__ with bl and tr given and no domain               *)
(* (mermoz/problem.py, lines 50-102), in Cartesian coordinates, where no   *)
(* land mask is built.  kin holds the arguments and the point a caller     *)
(* asks about; problem is the object once built; kout is the answer of     *)
(* self.domain(x).  The wind is analytic, or a DiscreteWind with the       *)
(* limits of its grid; distance() of mermoz.misc is the Euclidean one.     *)
(***************************************************************************)
\* lines 85-88: the box of side 1.15 * geod_l around the middle of the end points
auto_bl(x_init, x_target) ==
    << Quot(x_init[1] + x_target[1], 2) - Quot(FMul(1150, Norm(x_init, x_target)), 2),
       Quot(x_init[2] + x_target[2], 2) - Quot(FMul(1150, Norm(x_init, x_target)), 2) >>

auto_tr(x_init, x_target) ==
    << Quot(x_init[1] + x_target[1], 2) + Quot(FMul(1150, Norm(x_init, x_target)), 2),
       Quot(x_init[2] + x_target[2], 2) + Quot(FMul(1150, Norm(x_init, x_target)), 2) >>

\* lines 50-102 with domain = None and bl, tr given: self.bl, self.tr and
\* the kind of predicate self.domain is
MermozProblem_box(x_init, x_target, bl, tr, autodomain, wind) ==
    IF ~autodomain
    THEN [bl |-> bl, tr |-> tr, domain |-> "box", x_init |-> x_init, x_target |-> x_target]
    ELSE IF wind.type = "DiscreteWind"
    THEN [bl |-> <<wind.x_min, wind.y_min>>, tr |-> <<wind.x_max, wind.y_max>>,
          domain |-> "box", x_init |-> x_init, x_target |-> x_target]
    ELSE [bl |-> auto_bl(x_init, x_target), tr |-> auto_tr(x_init, x_target),
          domain |-> "box", x_init |-> x_init, x_target |-> x_target]

BoxWinds ==
    { [type |-> "UniformWind", x_min |-> 0, x_max |-> 0, y_min |-> 0, y_max |-> 0],
      [type |-> "DiscreteWind", x_min |-> -1000, x_max |-> 3000, y_min |-> -1000, y_max |-> 2000] }

InitBox ==
    /\ rft = NoRft
    /\ run = NoRun
    /\ problem = NoProblem
    /\ \E x_init \in {<<0, 0>>, <<500, 1000>>}, x_target \in {<<2000, 0>>, <<2000, 2000>>},
          tr \in {<<2500, 2500>>, <<4000, 3000>>}, autodomain \in BOOLEAN, wind \in BoxWinds,
          x \in {<<1000, 1000>>, <<-500, 0>>, <<2500, 1000>>, <<3500, 2900>>, <<-700, -700>>} :
          kin = [ x_init |-> x_init, x_target |-> x_target, bl |-> <<-500, -500>>, tr |-> tr,
                  autodomain |-> autodomain, wind |-> wind, x |-> x ]
    /\ kout = [asked |-> FALSE, domain |-> FALSE]

\* mp = MermozProblem(model, x_init, x_target, coords, bl=bl, tr=tr, autodomain=autodomain)
ConstructProblem ==
    /\ problem = NoProblem
    /\ problem' = MermozProblem_box(kin.x_init, kin.x_target, kin.bl, kin.tr,
                                    kin.autodomain, kin.wind)
    /\ UNCHANGED <<kin, kout, rft, run>>

\* mp.domain(x)
QueryDomain ==
    /\ problem # NoProblem
    /\ ~kout.asked
    /\ kout' = [asked |-> TRUE, domain |-> domain(problem, kin.x)]
    /\ UNCHANGED <<kin, rft, run, problem>>

NextBox == ConstructProblem \/ QueryDomain

SpecBox == InitBox /\ [][NextBox]_vars

\* C28: a problem built with bl and tr and no domain keeps the caller's bl
\* and tr, and its domain holds exactly at the points strictly inside that
\* box, whatever autodomain is.
C28_CallerBoxIsKept ==
    problem # NoProblem =>
        /\ problem.bl = kin.bl
        /\ problem.tr = kin.tr
        /\ kout.asked => (kout.domain <=> StrictlyInside(kin.bl, kin.tr, kin.x))

(***************************************************************************)
(* GreatCircleObs built with autobox=True (dabry/obstacle.py, lines        *)
(* 289-298): the activation zone is derived from p1 and p2.  Angles are    *)
(* in degrees and range over quarter turns, so that the halves are whole.  *)
(* Utils.angular_diff is not part of the sources: it is the unsigned       *)
(* difference of two longitudes, at most a half turn.                      *)
(***************************************************************************)
\* Utils.angular_diff(a1, a2)
angular_diff(a1, a2) ==
    IF Abs(a1 - a2) % 360 <= 180 THEN Abs(a1 - a2) % 360 ELSE 360 - (Abs(a1 - a2) % 360)

\* line 294
delta_lat(p1, p2) == p1[2] - p2[1]

\* GreatCircleObs.__init__ with autobox=True
GreatCircleObs_autobox(p1, p2) ==
    [ has_zone |-> TRUE,
      z1 |-> << Min(p1[1] - Quot(angular_diff(p1[1], p2[1]), 2),
                    p2[1] - Quot(angular_diff(p1[1], p2[1]), 2)),
                Min(p1[2] - Quot(delta_lat(p1, p2), 2), p2[2] - Quot(delta_lat(p1, p2), 2)) >>,
      z2 |-> << Max(p1[1] + Quot(angular_diff(p1[1], p2[1]), 2),
                    p2[1] + Quot(angular_diff(p1[1], p2[1]), 2)),
                Max(p1[2] + Quot(delta_lat(p1, p2), 2), p2[2] + Quot(delta_lat(p1, p2), 2)) >>,
      dir_vect |-> dir_vect(Embed(p1), Embed(p2)) ]

NoObstacle == [has_zone |-> FALSE]

\* p1 and p2 are neither equal nor opposite; x is one of them
InitAutobox ==
    /\ rft = NoRft
    /\ run = NoRun
    /\ problem = NoProblem
    /\ \E p1 \in SpherePoints, p2 \in SpherePoints :
          /\ cross(Embed(p1), Embed(p2)) # <<0, 0, 0>>
          /\ \E x \in {p1, p2} :
                kin = [p1 |-> p1, p2 |-> p2, x |-> x, self |-> NoObstacle]
    /\ kout = NoGreatCircleOut

\* obs = GreatCircleObs(p1, p2, autobox=True)
AutoboxConstruct ==
    /\ kin.self = NoObstacle
    /\ kin' = [kin EXCEPT !.self = GreatCircleObs_autobox(kin.p1, kin.p2)]
    /\ UNCHANGED <<kout, rft, run, problem>>

\* obs.value(t, x)
AutoboxValue ==
    /\ kin.self # NoObstacle
    /\ kout = NoGreatCircleOut
    /\ kout' = [op |-> "value", value |-> GreatCircleObs_value(kin.self, 0, kin.x)]
    /\ UNCHANGED <<kin, rft, run, problem>>

NextAutobox == AutoboxConstruct \/ AutoboxValue

SpecAutobox == InitAutobox /\ [][NextAutobox]_vars

\* C30: the latitude interval from z1[1] to z2[1] of an autobox zone is not
\* empty and contains the latitudes of p1 and of p2, and the value at a
\* defining point is the product with the normal, not the sentinel.
C30_AutoboxContainsDefiningPoints ==
    kin.self # NoObstacle =>
        /\ kin.self.z1[2] <= kin.self.z2[2]
        /\ kin.self.z1[2] <= kin.p1[2] /\ kin.p1[2] <= kin.self.z2[2]
        /\ kin.self.z1[2] <= kin.p2[2] /\ kin.p2[2] <= kin.self.z2[2]
        /\ kout.op = "value" => kout.value = Dot3(Embed(kin.x), kin.self.dir_vect)

====
